---- MODULE Spec2Model ----
(***************************************************************************)
(* A model of the speciation engine of rustneat (src/src/speciation):      *)
(* Age, Species, SpeciesCollection, Genus and GenusSeed, driven by a       *)
(* caller that may invoke the public operations in any order.              *)
(*                                                                         *)
(* The float type F is modelled by exact arithmetic: a value of F is a     *)
(* natural number of units of 10^-13, held as a little-endian sequence of  *)
(* limbs in base 10^4 (TLC's integers are 32 bits wide and the code's      *)
(* constants 0.0001 and 0.0000001 multiply to 10^-11).  A quotient by a    *)
(* species' size, which has no finite expansion, is kept as a fraction.    *)
(* Rounding errors of the machine floats are therefore not modelled.       *)
(***************************************************************************)
EXTENDS Integers, Sequences, FiniteSets, TLC

(***************************************************************************)
(* Bounds of the model                                                     *)
(***************************************************************************)
\* conf.total_population_size of the run that is modelled
TotalPopulationSize == 3
\* the longest population the caller hands to speciate
MaxPopulation == 3
\* how many individuals the caller and the reproduction policies create
MaxIndividuals == 5
\* update is not called any more once a species is this many generations old
MaxGenerations == 2
\* the individuals the caller makes for a Species it owns by itself
MaxSpeciesIndividuals == 3
MaxCollection == 2
MaxMembers == 2
\* the individuals created over two populations and the generation between
MaxTransitionIndividuals == 7
\* the longest population of a run that goes through a whole transition
MaxTransitionPopulation == 2

(***************************************************************************)
(* Option<T>: None is the empty sequence, Some(x) the one-element sequence *)
(***************************************************************************)
None == <<>>
Some(x) == <<x>>
IsSome(o) == o # <<>>
Unwrap(o) == o[1]

(***************************************************************************)
(* The float type F, exactly                                               *)
(***************************************************************************)
Base == 10^4
\* a value of F: seven limbs, the lowest first
FZero == <<0, 0, 0, 0, 0, 0, 0>>
Limbs == Len(FZero)

RECURSIVE AddLimbs(_, _, _, _)
AddLimbs(a, b, i, carry) ==
    IF i > Limbs THEN <<>>
    ELSE LET s == a[i] + b[i] + carry
         IN  <<s % Base>> \o AddLimbs(a, b, i + 1, s \div Base)

RECURSIVE MulLimbs(_, _, _, _)
MulLimbs(a, k, i, carry) ==
    IF i > Limbs THEN <<>>
    ELSE LET s == a[i] * k + carry
         IN  <<s % Base>> \o MulLimbs(a, k, i + 1, s \div Base)

RECURSIVE DivLimbs(_, _, _, _)
DivLimbs(a, k, i, rem) ==
    IF i < 1 THEN <<>>
    ELSE LET cur == rem * Base + a[i]
         IN  DivLimbs(a, k, i - 1, cur % k) \o <<cur \div k>>

RECURSIVE CmpLimbs(_, _, _)
CmpLimbs(a, b, i) ==
    IF i < 1 THEN 0
    ELSE IF a[i] < b[i] THEN -1
    ELSE IF a[i] > b[i] THEN 1
    ELSE CmpLimbs(a, b, i - 1)

\* a + b
FAdd(a, b) == AddLimbs(a, b, 1, 0)
\* a * k for a natural k < Base
FMulNat(a, k) == MulLimbs(a, k, 1, 0)
\* a / k for a natural 0 < k < Base that divides a
FDivNat(a, k) == DivLimbs(a, k, Limbs, 0)
\* a * (p / q), the product with a decimal constant p / q
FMul(a, ratio) == FDivNat(FMulNat(a, ratio[1]), ratio[2])
FLess(a, b) == CmpLimbs(a, b, Limbs) < 0
FLeq(a, b) == CmpLimbs(a, b, Limbs) <= 0
FIsZero(a) == a = FZero
\* F::from(k) for a natural k < 1000: k * 10^13 units = 10 k * Base^3
FFromNat(k) == <<0, 0, 0, 10 * k, 0, 0, 0>>
\* F::from(0.0001): 10^9 units = 10 * Base^2
FEpsilon == <<0, 0, 10, 0, 0, 0, 0>>
\* a * F::from(0.0000001), the penalty of a stagnating species
FMulStagnation(a) == FDivNat(FDivNat(a, 10^3), 10^4)

\* A quotient x / n by a natural n is the fraction [num |-> x, den |-> n].
QZero == [num |-> FZero, den |-> 1]
QAdd(p, q) ==
    IF p.den = q.den THEN [num |-> FAdd(p.num, q.num), den |-> p.den]
    ELSE [num |-> FAdd(FMulNat(p.num, q.den), FMulNat(q.num, p.den)),
          den |-> p.den * q.den]
QIsPositive(p) == ~FIsZero(p.num)
\* a quota that rounds up: the smallest q with p * n <= q * t
QCeilDiv(p, t, n) ==
    LET lhs(q) == FMulNat(FMulNat(t.num, p.den), q)
        rhs    == FMulNat(FMulNat(p.num, t.den), n)
    IN  CHOOSE q \in 0..n : /\ FLeq(rhs, lhs(q))
                            /\ (q = 0 \/ FLess(lhs(q - 1), rhs))

\* floor(p / (t / n)) = the largest q with q * t <= p * n, for t > 0 and p <= t
QFloorDiv(p, t, n) ==
    LET lhs(q) == FMulNat(FMulNat(t.num, p.den), q)
        rhs    == FMulNat(FMulNat(p.num, t.den), n)
    IN  CHOOSE q \in 0..n : /\ FLeq(lhs(q), rhs)
                            /\ (q = n \/ FLess(rhs, lhs(q + 1)))

(***************************************************************************)
(* Individual: the caller's type.  A genome decides compatibility; the     *)
(* fitness is absent until an evaluation sets it.  id is the caller's      *)
(* serial number of the object (tests/mod.rs, IndividualTest.id).          *)
(***************************************************************************)
Genomes == {"a", "b", "c"}

\* Individual::is_compatible, the pairs <<self, other>> it accepts.  The
\* relation is the caller's and nothing makes it an equivalence: a and b
\* accept each other, c accepts b but b does not accept c, and c does not
\* accept c (tests/mod.rs: an individual is not compatible with itself)
CompatiblePairs ==
    {<<"a", "a">>, <<"b", "b">>,
     <<"a", "b">>, <<"b", "a">>, <<"c", "b">>}
IndividualIsCompatible(self, other) == <<self.genome, other.genome>> \in CompatiblePairs

\* the fitness function of the caller: what evaluate computes from a genome
GenomeFitness(g) == CASE g = "a" -> 0 [] g = "b" -> 1 [] g = "c" -> 0

NewIndividual(id, genome) == [id |-> id, genome |-> genome, fitness |-> None]

\* evaluate_individual: sets the fitness and returns it
Evaluate(individual) == [individual EXCEPT !.fitness = Some(GenomeFitness(individual.genome))]

(***************************************************************************)
(* Conf                                                                    *)
(***************************************************************************)
Conf ==
    [total_population_size   |-> TotalPopulationSize,
     crossover               |-> TRUE,
     young_age_threshold     |-> 1,
     old_age_threshold       |-> 1,
     species_max_stagnation  |-> 1,
     young_age_fitness_boost |-> <<11, 10>>,
     old_age_fitness_penalty |-> <<9, 10>>]

(***************************************************************************)
(* A call either returns or panics: panic is "" or the panic message.      *)
(***************************************************************************)
NoPanic == ""

(***************************************************************************)
(* Age                                                                     *)
(***************************************************************************)
AgeNew == [generations |-> 0, evaluations |-> 0, no_improvements |-> 0]
AgeIncreaseGenerations(age) == [age EXCEPT !.generations = @ + 1]
AgeIncreaseNoImprovements(age) == [age EXCEPT !.no_improvements = @ + 1]
AgeResetGenerations(age) == [age EXCEPT !.generations = 0, !.no_improvements = 0]
AgeResetNoImprovements(age) == [age EXCEPT !.no_improvements = 0]

(***************************************************************************)
(* Species                                                                 *)
(***************************************************************************)
\* an Indiv that starts with an adjusted fitness of zero
IndivFromZero(individual) == [individual |-> individual, adjusted_fitness |-> Some(QZero)]

\* Indiv::from
IndivFrom(individual) == [individual |-> individual, adjusted_fitness |-> None]

IndivsFrom(individuals) == [k \in 1..Len(individuals) |-> IndivFrom(individuals[k])]

SpeciesNew(individual, species_id) ==
    [individuals       |-> <<IndivFrom(individual)>>,
     id                |-> species_id,
     age               |-> AgeNew,
     last_best_fitness |-> FZero]

SpeciesRepresentative(species) ==
    IF species.individuals = <<>> THEN None
    ELSE Some(species.individuals[1].individual)

SpeciesIsCompatible(species, candidate) ==
    LET representative == SpeciesRepresentative(species)
    IN  IF IsSome(representative)
        THEN IndividualIsCompatible(Unwrap(representative), candidate)
        ELSE FALSE

SpeciesInsert(species, individual) ==
    [species EXCEPT !.individuals = Append(@, IndivFrom(individual))]

SpeciesSetIndividuals(species, individuals) ==
    [species EXCEPT !.individuals = IndivsFrom(individuals)]

\* the individuals that drain_individuals yields
SpeciesMembers(species) ==
    [k \in 1..Len(species.individuals) |-> species.individuals[k].individual]

\* the species after drain_individuals
SpeciesDrained(species) == [species EXCEPT !.individuals = <<>>]

SpeciesResetAge(species) ==
    [species EXCEPT !.age = AgeResetNoImprovements(AgeResetGenerations(@))]

\* Option<F> as PartialOrd orders None below every Some
FitnessGreater(x, y) ==
    IF IsSome(x) THEN (IsSome(y) => Unwrap(x) > Unwrap(y)) ELSE FALSE

\* Iterator::max_by with a comparison that answers Greater when a > b and
\* Less otherwise: the fold keeps the accumulated element only when it
\* compares Greater than the next one.
RECURSIVE MaxByIndex(_, _, _)
MaxByIndex(fitnesses, best, k) ==
    IF k > Len(fitnesses) THEN best
    ELSE MaxByIndex(fitnesses,
                    IF FitnessGreater(fitnesses[best], fitnesses[k]) THEN best ELSE k,
                    k + 1)

\* the position of the member that get_best_individual returns, 0 for none
SpeciesBestIndex(species) ==
    IF species.individuals = <<>> THEN 0
    ELSE MaxByIndex([k \in 1..Len(species.individuals) |->
                        species.individuals[k].individual.fitness], 1, 2)

SpeciesGetBestIndividual(species) ==
    IF species.individuals = <<>> THEN None
    ELSE Some(species.individuals[SpeciesBestIndex(species)].individual)

SpeciesGetBestFitness(species) ==
    IF species.individuals = <<>> THEN None
    ELSE species.individuals[SpeciesBestIndex(species)].individual.fitness

\* individual_adjusted_fitness, the three multipliers: the boost of a young
\* species, the penalty of an old one, the penalty of a stagnating one
YoungBoost(fitness, age, conf) ==
    IF age.generations < conf.young_age_threshold
    THEN FMul(fitness, conf.young_age_fitness_boost)
    ELSE fitness

OldPenalty(fitness, age, conf) ==
    IF age.generations > conf.old_age_threshold
    THEN FMul(fitness, conf.old_age_fitness_penalty)
    ELSE fitness

StagnationPenalty(fitness, is_best_species, age, conf) ==
    IF ~is_best_species /\ age.no_improvements > conf.species_max_stagnation
    THEN FMulStagnation(fitness)
    ELSE fitness

AgeMultipliers(fitness, is_best_species, age, conf) ==
    StagnationPenalty(OldPenalty(YoungBoost(fitness, age, conf), age, conf),
                      is_best_species, age, conf)

\* individual_adjusted_fitness, the small fitness set for an absent one
NonZeroFitness(fitness) == IF FIsZero(fitness) THEN FEpsilon ELSE fitness

\* a test that lets every fitness renew the best one
RenewsAlways(fitness, last_best_fitness) == TRUE

\* individual_adjusted_fitness, whether the fitness renews the best one
RenewsBestFitness(fitness, last_best_fitness) == FLeq(last_best_fitness, fitness)

\* individual_adjusted_fitness from the update of the best fitness on: the
\* adjusted value with the age and the last best fitness as it leaves them
AdjustedFitnessOf(fitness, is_best_species, age, last_best_fitness, conf) ==
    IF RenewsBestFitness(fitness, last_best_fitness)
    THEN [fitness |-> AgeMultipliers(fitness, is_best_species,
                                     AgeResetNoImprovements(age), conf),
          age |-> AgeResetNoImprovements(age),
          last_best_fitness |-> fitness]
    ELSE [fitness |-> AgeMultipliers(fitness, is_best_species, age, conf),
          age |-> age,
          last_best_fitness |-> last_best_fitness]

IndividualAdjustedFitness(raw, is_best_species, age, last_best_fitness, conf) ==
    AdjustedFitnessOf(NonZeroFitness(raw), is_best_species, age, last_best_fitness, conf)

\* the fitness that compute_adjust_fitness reads: `fitness().unwrap_or(F::zero())`
\* (a fitness below zero, which panics, is none of the values of the model)
FitnessOrZero(individual) ==
    IF IsSome(individual.fitness) THEN FFromNat(Unwrap(individual.fitness)) ELSE FZero

\* one turn of the loop of compute_adjust_fitness: member k gets its
\* adjusted fitness, the species its age and last best fitness
AdjustMember(species, k, individual_n, r) ==
    [species EXCEPT
        !.individuals[k].adjusted_fitness = Some([num |-> r.fitness, den |-> individual_n]),
        !.age = r.age,
        !.last_best_fitness = r.last_best_fitness]

RECURSIVE AdjustFrom(_, _, _, _, _)
AdjustFrom(species, is_best_species, conf, individual_n, k) ==
    IF k > Len(species.individuals) THEN species
    ELSE AdjustFrom(
             AdjustMember(species, k, individual_n,
                          IndividualAdjustedFitness(
                              FitnessOrZero(species.individuals[k].individual),
                              is_best_species, species.age,
                              species.last_best_fitness, conf)),
             is_best_species, conf, individual_n, k + 1)

\* Species::compute_adjust_fitness; it asserts that the species is not empty
SpeciesComputeAdjustFitness(species, is_best_species, conf) ==
    AdjustFrom(species, is_best_species, conf, Len(species.individuals), 1)

RECURSIVE SumAdjusted(_, _)
SumAdjusted(individuals, k) ==
    IF k > Len(individuals) THEN QZero
    ELSE QAdd(Unwrap(individuals[k].adjusted_fitness), SumAdjusted(individuals, k + 1))

\* whether accumulated_adjusted_fitness panics ("An individual has no
\* adjusted fitness")
SpeciesHasAdjustedFitness(species) ==
    \A k \in 1..Len(species.individuals) : IsSome(species.individuals[k].adjusted_fitness)

SpeciesAccumulatedAdjustedFitness(species) == SumAdjusted(species.individuals, 1)

(***************************************************************************)
(* SpeciesCollection                                                       *)
(***************************************************************************)
CollectionNew == [collection |-> <<>>, best |-> None, cache_need_updating |-> TRUE]

CollectionNewFromIter(species) ==
    [collection |-> species, best |-> None, cache_need_updating |-> TRUE]

CollectionPush(sc, species) ==
    [sc EXCEPT !.collection = Append(@, species), !.cache_need_updating = TRUE]

RECURSIVE RetainNonEmpty(_)
RetainNonEmpty(collection) ==
    IF collection = <<>> THEN <<>>
    ELSE IF Head(collection).individuals = <<>> THEN RetainNonEmpty(Tail(collection))
    ELSE <<Head(collection)>> \o RetainNonEmpty(Tail(collection))

CollectionCleanup(sc) == [sc EXCEPT !.collection = RetainNonEmpty(@)]

\* a clear that leaves the species in place
CollectionKept(sc) == sc

CollectionClear(sc) == [sc EXCEPT !.collection = <<>>]

RECURSIVE SumLen(_)
SumLen(collection) ==
    IF collection = <<>> THEN 0
    ELSE Len(Head(collection).individuals) + SumLen(Tail(collection))

CollectionCountIndividuals(sc) == SumLen(sc.collection)

\* the positions of the species that have a best fitness, in order
RECURSIVE EvaluatedPositions(_, _)
EvaluatedPositions(collection, i) ==
    IF i > Len(collection) THEN <<>>
    ELSE (IF IsSome(SpeciesGetBestFitness(collection[i])) THEN <<i>> ELSE <<>>)
         \o EvaluatedPositions(collection, i + 1)

\* _update_cache, the best position among the species that have a fitness
BestOfPositions(collection, positions) ==
    IF positions = <<>> THEN None
    ELSE Some(positions[MaxByIndex([k \in 1..Len(positions) |->
                                       SpeciesGetBestFitness(collection[positions[k]])],
                                   1, 2)])

\* _update_cache; it asserts that the collection is not empty
CollectionUpdateCache(sc) ==
    [sc EXCEPT !.best = BestOfPositions(sc.collection, EvaluatedPositions(sc.collection, 1)),
               !.cache_need_updating = FALSE]

\* get_best, the collection as the call leaves it
CollectionAfterGetBest(sc) ==
    IF sc.collection # <<>> /\ sc.cache_need_updating THEN CollectionUpdateCache(sc) ELSE sc

\* get_best: the collection as the call leaves it, and the index returned
CollectionGetBest(sc) ==
    IF sc.collection = <<>>
    THEN [panic |-> "assertion failed: !self.collection.is_empty()", sc |-> sc, best |-> None]
    ELSE [panic |-> NoPanic, sc |-> CollectionAfterGetBest(sc),
          best |-> CollectionAfterGetBest(sc).best]

\* get_worst is todo!()
CollectionGetWorst(sc) == [panic |-> "not yet implemented"]

\* compute_update, the loop that ages every species
AgedCollection(collection) ==
    [i \in 1..Len(collection) |->
        [collection[i] EXCEPT !.age = AgeIncreaseNoImprovements(AgeIncreaseGenerations(@))]]

\* a compute_update that leaves the old best species its age
NotRejuvenated(collection, old_best) == collection

\* compute_update, the rejuvenation of the old best species
Rejuvenated(collection, old_best) ==
    IF IsSome(old_best) THEN [collection EXCEPT ![Unwrap(old_best)] = SpeciesResetAge(@)]
    ELSE collection

\* a compute_update that rejuvenates the best species before it ages them all
ComputeUpdateRejuvenatingFirst(old_best) ==
    IF old_best.panic # NoPanic THEN [panic |-> old_best.panic, sc |-> old_best.sc]
    ELSE IF IsSome(old_best.best) /\ Unwrap(old_best.best) > Len(old_best.sc.collection)
    THEN [panic |-> "index out of bounds", sc |-> old_best.sc]
    ELSE [panic |-> NoPanic,
          sc    |-> [old_best.sc EXCEPT
                        !.collection = AgedCollection(Rejuvenated(@, old_best.best))]]

\* compute_update once get_best has answered
ComputeUpdateWith(old_best) ==
    IF old_best.panic # NoPanic THEN [panic |-> old_best.panic, sc |-> old_best.sc]
    ELSE IF IsSome(old_best.best) /\ Unwrap(old_best.best) > Len(old_best.sc.collection)
    THEN [panic |-> "index out of bounds", sc |-> old_best.sc]
    ELSE [panic |-> NoPanic,
          sc    |-> [old_best.sc EXCEPT
                        !.collection = Rejuvenated(AgedCollection(@), old_best.best)]]

CollectionComputeUpdate(sc) == ComputeUpdateWith(CollectionGetBest(sc))

CollectionComputeAdjustFitness(sc, conf) ==
    IF ~IsSome(sc.best) THEN [panic |-> "best should be present", sc |-> sc]
    ELSE IF Unwrap(sc.best) > Len(sc.collection)
    THEN [panic |-> "index out of bounds", sc |-> sc]
    ELSE IF \E i \in 1..Len(sc.collection) : sc.collection[i].individuals = <<>>
    THEN [panic |-> "assertion failed: !self.is_empty()", sc |-> sc]
    ELSE LET best_id == sc.collection[Unwrap(sc.best)].id
         IN  [panic |-> NoPanic,
              sc    |-> [sc EXCEPT
                            !.collection =
                                [i \in 1..Len(sc.collection) |->
                                    SpeciesComputeAdjustFitness(
                                        sc.collection[i],
                                        sc.collection[i].id = best_id, conf)]]]

(***************************************************************************)
(* Genus                                                                   *)
(***************************************************************************)
GenusNew == [next_species_id |-> 1, species_collection |-> CollectionNew]

BuildNextGeneration(species_collection, next_species_id) ==
    [next_species_id |-> next_species_id, species_collection |-> species_collection]

GenusCountIndividuals(g) == CollectionCountIndividuals(g.species_collection)

\* the position of the last species compatible with the individual, 0 for none
RECURSIVE LastCompatible(_, _, _)
LastCompatible(collection, individual, i) ==
    IF i > Len(collection) THEN 0
    ELSE IF LastCompatible(collection, individual, i + 1) # 0
    THEN LastCompatible(collection, individual, i + 1)
    ELSE IF SpeciesIsCompatible(collection[i], individual) THEN i
    ELSE 0

\* the position of the first species compatible with the individual, 0 for none
RECURSIVE FirstCompatible(_, _, _)
FirstCompatible(collection, individual, i) ==
    IF i > Len(collection) THEN 0
    ELSE IF SpeciesIsCompatible(collection[i], individual) THEN i
    ELSE FirstCompatible(collection, individual, i + 1)

\* an id counter that advances by two
NextSpeciesIdSkipping(next_species_id) == next_species_id + 2

\* an id counter that hands out the same id again
NextSpeciesIdReused(next_species_id) == next_species_id

\* the id counter after a species has been given the id next_species_id
NextSpeciesIdAfter(next_species_id) == next_species_id + 1

\* one turn of the loop of speciate
SpeciateIndividual(g, individual) ==
    LET i == FirstCompatible(g.species_collection.collection, individual, 1)
    IN  IF i # 0
        THEN [g EXCEPT !.species_collection.collection[i] = SpeciesInsert(@, individual)]
        ELSE [next_species_id    |-> NextSpeciesIdAfter(g.next_species_id),
              species_collection |->
                  CollectionPush(g.species_collection,
                                 SpeciesNew(individual, g.next_species_id))]

RECURSIVE SpeciateFrom(_, _, _)
SpeciateFrom(g, source_population, k) ==
    IF k > Len(source_population) THEN g
    ELSE SpeciateFrom(SpeciateIndividual(g, source_population[k]), source_population, k + 1)

\* a speciate that starts the id counter again
GenusSpeciateRestarting(g, source_population) ==
    SpeciateFrom([next_species_id    |-> 1,
                  species_collection |-> CollectionClear(g.species_collection)],
                 source_population, 1)

GenusSpeciate(g, source_population) ==
    SpeciateFrom([g EXCEPT !.species_collection = CollectionClear(@)], source_population, 1)

\* the loop body of ensure_evaluated_population, for an evaluation that
\* reports the fitness it has set
EnsureEvaluated(individual) ==
    IF IsSome(individual.fitness) THEN individual ELSE Evaluate(individual)

SpeciesEnsureEvaluated(species) ==
    [species EXCEPT !.individuals =
        [k \in 1..Len(species.individuals) |->
            [species.individuals[k] EXCEPT !.individual = EnsureEvaluated(@)]]]

GenusEnsureEvaluatedPopulation(g) ==
    [g EXCEPT !.species_collection.collection =
        [i \in 1..Len(g.species_collection.collection) |->
            SpeciesEnsureEvaluated(g.species_collection.collection[i])]]

\* The evaluation capability is the caller's closure FnMut(&mut I) -> F.
\* One that sets the fitness and returns it, one that returns a fitness
\* and sets none, one that returns another value than the one it sets.
Evaluators == {"reports", "sets nothing", "misreports"}

\* evaluate_individual(individual): the individual as the closure leaves it
\* and the fitness it returns
EvaluateIndividual(evaluate_individual, individual) ==
    [individual |-> IF evaluate_individual = "sets nothing" THEN individual
                    ELSE Evaluate(individual),
     fitness    |-> IF evaluate_individual = "misreports"
                    THEN GenomeFitness(individual.genome) + 1
                    ELSE GenomeFitness(individual.genome)]

\* the two assertions that follow the evaluation of an individual
EvaluationPanic(e) ==
    IF ~IsSome(e.individual.fitness)
    THEN "assertion failed: individual_fitness.is_some()"
    ELSE IF e.fitness # Unwrap(e.individual.fitness)
    THEN "assertion failed: (left == right)"
    ELSE NoPanic

\* ensure_evaluated_population, what the evaluation e of member k of
\* species i leaves: r holds the Genus, the ids of the individuals the
\* closure has been called on, in the order of the calls, and the panic
EvaluatedMember(r, i, k, e) ==
    [genus     |-> [r.genus EXCEPT
                       !.species_collection.collection[i].individuals[k].individual =
                           e.individual],
     evaluated |-> Append(r.evaluated, e.individual.id),
     panic     |-> EvaluationPanic(e)]

\* a loop body that evaluates every member, with a fitness or without
EnsureMemberAlways(r, i, k, evaluate_individual) ==
    EvaluatedMember(r, i, k,
        EvaluateIndividual(
            evaluate_individual,
            r.genus.species_collection.collection[i].individuals[k].individual))

\* ensure_evaluated_population, the body of the inner loop
EnsureMember(r, i, k, evaluate_individual) ==
    IF IsSome(r.genus.species_collection.collection[i].individuals[k].individual.fitness)
    THEN r
    ELSE EvaluatedMember(r, i, k,
             EvaluateIndividual(
                 evaluate_individual,
                 r.genus.species_collection.collection[i].individuals[k].individual))

\* ensure_evaluated_population, the two loops from member k of species i on
RECURSIVE EnsureFrom(_, _, _, _)
EnsureFrom(r, i, k, evaluate_individual) ==
    IF r.panic # NoPanic \/ i > Len(r.genus.species_collection.collection) THEN r
    ELSE IF k > Len(r.genus.species_collection.collection[i].individuals)
    THEN EnsureFrom(r, i + 1, 1, evaluate_individual)
    ELSE EnsureFrom(EnsureMember(r, i, k, evaluate_individual), i, k + 1,
                    evaluate_individual)

\* ensure_evaluated_population with any evaluation capability
GenusEnsureEvaluatedPopulationWith(g, evaluate_individual) ==
    EnsureFrom([genus |-> g, evaluated |-> <<>>, panic |-> NoPanic], 1, 1,
               evaluate_individual)

\* update once compute_update has run
UpdateAdjust(g, updated, conf) ==
    IF updated.panic # NoPanic THEN updated
    ELSE CollectionComputeAdjustFitness(updated.sc, conf)

\* update: the panic, if any, and the collection as the call leaves it
GenusUpdate(g, conf) ==
    UpdateAdjust(g, CollectionComputeUpdate(g.species_collection), conf)

RECURSIVE SeqSum(_)
SeqSum(amounts) == IF amounts = <<>> THEN 0 ELSE Head(amounts) + SeqSum(Tail(amounts))

RECURSIVE SumAccumulated(_, _)
SumAccumulated(collection, i) ==
    IF i > Len(collection) THEN QZero
    ELSE QAdd(SpeciesAccumulatedAdjustedFitness(collection[i]),
              SumAccumulated(collection, i + 1))

\* calculate_average_fitness: the total adjusted fitness and the number of
\* individuals, whose quotient is the average; err is "" or the error
CalculateAverageFitness(g) ==
    IF \E i \in 1..Len(g.species_collection.collection) :
           ~SpeciesHasAdjustedFitness(g.species_collection.collection[i])
    THEN [panic |-> "An individual has no adjusted fitness", err |-> ""]
    ELSE IF ~QIsPositive(SumAccumulated(g.species_collection.collection, 1))
    THEN [panic |-> NoPanic, err |-> "Total adjusted fitness is <= 0"]
    ELSE [panic |-> NoPanic, err |-> "",
          total |-> SumAccumulated(g.species_collection.collection, 1),
          number_of_individuals |-> SumLen(g.species_collection.collection)]

\* calculate_population_size: floor(accumulated / average) per species
CalculatePopulationSize(g, average) ==
    [i \in 1..Len(g.species_collection.collection) |->
        QFloorDiv(SpeciesAccumulatedAdjustedFitness(g.species_collection.collection[i]),
                  average.total, average.number_of_individuals)]

\* a correction that gives the deficit to the first species
AddToFirst(species_offspring_amount, missing_offspring, best) ==
    IF best.panic # NoPanic THEN [panic |-> best.panic]
    ELSE IF ~IsSome(best.best) THEN [panic |-> "a best species to be found"]
    ELSE [panic   |-> NoPanic,
          sc      |-> best.sc,
          amounts |-> [species_offspring_amount EXCEPT ![1] = @ + missing_offspring]]

\* correct_population_size when offsprings are missing, once get_best has
\* answered: the whole deficit goes to the best species
AddToBest(species_offspring_amount, missing_offspring, best) ==
    IF best.panic # NoPanic THEN [panic |-> best.panic]
    ELSE IF ~IsSome(best.best) THEN [panic |-> "a best species to be found"]
    ELSE IF Unwrap(best.best) > Len(species_offspring_amount)
    THEN [panic |-> "index out of bounds"]
    ELSE [panic   |-> NoPanic,
          sc      |-> best.sc,
          amounts |-> [species_offspring_amount EXCEPT
                          ![Unwrap(best.best)] = @ + missing_offspring]]

\* correct_population_size when there are too many offsprings: get_worst
RemoveFromWorst(g, species_offspring_amount, excess_offspring) ==
    [panic |-> CollectionGetWorst(g.species_collection).panic]

\* correct_population_size: the corrected amounts and the collection as
\* get_best leaves it
CorrectPopulationSize(g, species_offspring_amount, missing_offspring) ==
    IF missing_offspring > 0
    THEN AddToBest(species_offspring_amount, missing_offspring,
                   CollectionGetBest(g.species_collection))
    ELSE IF missing_offspring < 0
    THEN RemoveFromWorst(g, species_offspring_amount, -missing_offspring)
    ELSE [panic |-> NoPanic, sc |-> g.species_collection,
          amounts |-> species_offspring_amount]

\* count_offsprings, the check of the corrected amounts
CheckCorrected(number_of_individuals, corrected) ==
    IF corrected.panic # NoPanic THEN [panic |-> corrected.panic]
    ELSE IF SeqSum(corrected.amounts) # number_of_individuals
    THEN [panic |-> NoPanic,
          err |-> "Generated species_offspring_amount does not equal number_of_individuals",
          amounts |-> <<>>, sc |-> corrected.sc]
    ELSE [panic |-> NoPanic, err |-> "", amounts |-> corrected.amounts, sc |-> corrected.sc]

\* count_offsprings, missing_offsprings: what the raw amounts lack of the
\* number asked for (of a Genus whose average fitness can be calculated)
MissingOffsprings(g, number_of_individuals) ==
    number_of_individuals
        - SeqSum(CalculatePopulationSize(g, CalculateAverageFitness(g)))

\* count_offsprings from the raw amounts on
CountFromRaw(g, number_of_individuals, raw) ==
    IF number_of_individuals - SeqSum(raw) = 0
    THEN [panic |-> NoPanic, err |-> "", amounts |-> raw, sc |-> g.species_collection]
    ELSE CheckCorrected(number_of_individuals,
                        CorrectPopulationSize(g, raw, number_of_individuals - SeqSum(raw)))

\* count_offsprings from the average on
CountFromAverage(g, number_of_individuals, average) ==
    IF average.panic # NoPanic THEN [panic |-> average.panic]
    ELSE IF average.err # "" THEN [panic |-> "Couldn't calculate average fitness"]
    ELSE CountFromRaw(g, number_of_individuals, CalculatePopulationSize(g, average))

\* count_offsprings: Ok(amounts), Err(err) or a panic, and the collection as
\* the call leaves it
CountOffsprings(g, number_of_individuals) ==
    IF ~(number_of_individuals > 0)
    THEN [panic |-> "assertion failed: number_of_individuals > 0"]
    ELSE CountFromAverage(g, number_of_individuals, CalculateAverageFitness(g))

(***************************************************************************)
(* GenusSeed.  An Rc<RefCell<I>> is shared between need_evaluation and the *)
(* roster that holds the individual: the individual is stored once, in its *)
(* roster, and need_evaluation holds the ids of the individuals it refers  *)
(* to.                                                                     *)
(***************************************************************************)
GenusSeedNew(orphans, new_species_collection, need_evaluation, old_species_individuals) ==
    [orphans                 |-> orphans,
     new_species_collection  |-> new_species_collection,
     need_evaluation         |-> need_evaluation,
     old_species_individuals |-> old_species_individuals]

\* whether need_evaluation holds a reference to the individual
SeedRefers(seed, individual) ==
    \E k \in 1..Len(seed.need_evaluation) : seed.need_evaluation[k] = individual.id

\* GenusSeed::evaluate: every individual that need_evaluation refers to is
\* evaluated, through the shared reference
SeedEvaluated(seed) ==
    LET eval(x) == IF SeedRefers(seed, x) THEN Evaluate(x) ELSE x
    IN  [seed EXCEPT
            !.orphans = [k \in 1..Len(seed.orphans) |-> eval(seed.orphans[k])],
            !.new_species_collection =
                [i \in 1..Len(seed.new_species_collection) |->
                    [seed.new_species_collection[i] EXCEPT
                        !.individuals = [k \in 1..Len(@) |-> eval(@[k])]]]]

\* Species::clone_with_new_individuals
SpeciesCloneWithNewIndividuals(species, new_individuals) ==
    [individuals       |-> new_individuals,
     id                |-> species.id,
     age               |-> species.age,
     last_best_fitness |-> species.last_best_fitness]

\* a promotion that starts the species afresh
RcSpeciesPromoteAsNew(rc_species) ==
    [individuals       |-> IndivsFrom(rc_species.individuals),
     id                |-> rc_species.id,
     age               |-> AgeNew,
     last_best_fitness |-> FZero]

\* RcSpecies::promote, once Rc::try_unwrap has succeeded on every individual
RcSpeciesPromote(rc_species) ==
    [individuals       |-> IndivsFrom(rc_species.individuals),
     id                |-> rc_species.id,
     age               |-> rc_species.age,
     last_best_fitness |-> rc_species.last_best_fitness]

(***************************************************************************)
(* Genus::generate_new_individuals                                         *)
(***************************************************************************)
\* how many individuals the two nested loops over `0..offspring_amounts[i]`
\* and `0..n_offspring` make for a species of quota `quota`
OffspringCount(quota) == (quota * (quota - 1)) \div 2

NumberOfChildren(amounts) ==
    SeqSum([i \in 1..Len(amounts) |-> OffspringCount(amounts[i])])

\* The caller's policies.  A selection policy answers with members of the
\* pool it is handed, at the positions the caller chooses; reproduction
\* makes a fresh, unevaluated individual that carries a parent's genome
\* under the caller's next id (tests/mod.rs, crossover_1 and crossover_2);
\* mutation changes the genome of the individual in place, and never leaves
\* it as it was (tests/mod.rs, IndividualTest::mutate flips one gene).
ReproduceIndividual1(parent, id) == NewIndividual(id, parent.genome)
CrossoverIndividual2(parent1, parent2, id, pick) ==
    NewIndividual(id, IF pick = 1 THEN parent1.genome ELSE parent2.genome)
MutateIndividual(child) ==
    [child EXCEPT !.genome = CASE @ = "a" -> "b" [] @ = "b" -> "c" [] @ = "c" -> "a"]

\* a generate_new_individual that takes two parents whenever crossover is
\* enabled
UsesCrossoverAlways(conf, parent_pool_size) == conf.crossover

\* `conf.crossover && parent_pool_size > 1`
UsesCrossover(conf, parent_pool_size) == conf.crossover /\ parent_pool_size > 1

\* generate_new_individual with the policies spelled out: the child, and
\* the policy calls in the order they are made, each with what the policy
\* was handed and what it answered (sequences of individuals).  choices
\* holds what the policies choose: the position selection answers with, the
\* two positions parent_selection answers with, and the parent whose genome
\* the crossover hands on.
GenerateNewIndividualWith(conf, population, id, choices) ==
    IF ~(Len(population) > 0)
    THEN [panic |-> "assertion failed: parent_pool_size > 0"]
    ELSE LET policy_call(policy, input, output) ==
                 [policy |-> policy, input |-> input, output |-> output]
             parents == <<population[choices.parents[1]],
                          population[choices.parents[2]]>>
             parent  == population[choices.selected]
             made ==
                 IF UsesCrossover(conf, Len(population))
                 THEN <<policy_call("parent_selection", population, parents),
                        policy_call("crossover_individual_2", parents,
                                    <<CrossoverIndividual2(parents[1], parents[2], id,
                                                           choices.pick)>>)>>
                 ELSE <<policy_call("selection", population, <<parent>>),
                        policy_call("reproduce_individual_1", <<parent>>,
                                    <<ReproduceIndividual1(parent, id)>>)>>
             child == MutateIndividual(made[2].output[1])
         IN  [panic |-> NoPanic,
              child |-> child,
              calls |-> Append(made, policy_call("mutate_individual",
                                                 made[2].output, <<child>>))]

\* generate_new_individual: the child that reproduction and mutation make;
\* its genome is the policies' choice
GenerateNewIndividual(id, genome) == NewIndividual(id, genome)

\* the individuals made for the species at position i, in order of creation
ChildrenOf(amounts, i, genomes, first_id) ==
    LET before == NumberOfChildren(SubSeq(amounts, 1, i - 1))
    IN  [k \in 1..OffspringCount(amounts[i]) |->
            GenerateNewIndividual(first_id + before + k - 1, genomes[before + k])]

RECURSIVE ConcatAll(_)
ConcatAll(seqs) == IF seqs = <<>> THEN <<>> ELSE Head(seqs) \o ConcatAll(Tail(seqs))

\* the species of the Genus after `drain_individuals` on every one of them
DrainAll(sc) ==
    [sc EXCEPT !.collection = [i \in 1..Len(sc.collection) |-> SpeciesDrained(sc.collection[i])]]

\* the new individuals of species i that stay in it, and those orphaned
StagedOf(collection, amounts, i, genomes, first_id) ==
    SelectSeq(ChildrenOf(amounts, i, genomes, first_id),
              LAMBDA c : SpeciesIsCompatible(collection[i], c))

\* a generation that drops the new individuals its species does not accept
OrphanedNone(collection, amounts, i, genomes, first_id) == <<>>

OrphanedOf(collection, amounts, i, genomes, first_id) ==
    SelectSeq(ChildrenOf(amounts, i, genomes, first_id),
              LAMBDA c : ~SpeciesIsCompatible(collection[i], c))

IdsOf(individuals) == [k \in 1..Len(individuals) |-> individuals[k].id]

\* generate_new_individuals, the seed it builds from the amounts
SeedFrom(collection, amounts, genomes, first_id) ==
    GenusSeedNew(
        ConcatAll([i \in 1..Len(collection) |->
                      OrphanedOf(collection, amounts, i, genomes, first_id)]),
        [i \in 1..Len(collection) |->
            SpeciesCloneWithNewIndividuals(
                collection[i], StagedOf(collection, amounts, i, genomes, first_id))],
        IdsOf(ConcatAll([i \in 1..Len(collection) |->
                            ChildrenOf(amounts, i, genomes, first_id)])),
        [i \in 1..Len(collection) |-> SpeciesMembers(collection[i])])

\* generate_new_individuals once count_offsprings has answered: the seed,
\* and the Genus as the call leaves it
GenerateFrom(g, counted, genomes, first_id) ==
    IF counted.panic # NoPanic THEN [panic |-> counted.panic]
    ELSE IF counted.err # "" THEN [panic |-> "count offspring to be successful"]
    ELSE IF \E i \in 1..Len(g.species_collection.collection) :
                /\ OffspringCount(counted.amounts[i]) > 0
                /\ g.species_collection.collection[i].individuals = <<>>
    THEN [panic |-> "assertion failed: parent_pool_size > 0"]
    ELSE [panic   |-> NoPanic,
          amounts |-> counted.amounts,
          seed    |-> SeedFrom(g.species_collection.collection, counted.amounts,
                               genomes, first_id),
          genus   |-> [g EXCEPT !.species_collection = DrainAll(counted.sc)]]

GenusGenerateNewIndividuals(g, conf, genomes, first_id) ==
    GenerateFrom(g, CountOffsprings(g, conf.total_population_size), genomes, first_id)

(***************************************************************************)
(* Genus::next_generation                                                  *)
(***************************************************************************)
\* util::iterators::has_unique_elements
HasUniqueElements(ids) ==
    \A i, j \in 1..Len(ids) : i # j => ids[i] # ids[j]

\* whether Rc::try_unwrap fails on an individual of the seed: need_evaluation
\* is still alive while next_generation runs and holds a second reference
SeedSharesIndividuals(seed) ==
    \/ \E i \in 1..Len(seed.new_species_collection) :
          \E k \in 1..Len(seed.new_species_collection[i].individuals) :
              SeedRefers(seed, seed.new_species_collection[i].individuals[k])
    \/ \E k \in 1..Len(seed.orphans) : SeedRefers(seed, seed.orphans[k])

\* a loop in which every orphan founds a species
RECURSIVE SpawnForEveryOrphan(_, _, _, _)
SpawnForEveryOrphan(sc, local_next_species_id, orphans, k) ==
    IF k > Len(orphans)
    THEN [sc |-> sc, next_species_id |-> local_next_species_id]
    ELSE SpawnForEveryOrphan(
             CollectionPush(sc, SpeciesNew(orphans[k], local_next_species_id)),
             NextSpeciesIdAfter(local_next_species_id), orphans, k + 1)

\* the loop over the orphans, from orphan k on
RECURSIVE AdoptOrphans(_, _, _, _)
AdoptOrphans(sc, local_next_species_id, orphans, k) ==
    IF k > Len(orphans)
    THEN [sc |-> sc, next_species_id |-> local_next_species_id]
    ELSE LET i == FirstCompatible(sc.collection, orphans[k], 1)
         IN  IF i # 0
             THEN AdoptOrphans([sc EXCEPT !.collection[i] = SpeciesInsert(@, orphans[k])],
                               local_next_species_id, orphans, k + 1)
             ELSE AdoptOrphans(CollectionPush(sc, SpeciesNew(orphans[k], local_next_species_id)),
                               NextSpeciesIdAfter(local_next_species_id), orphans, k + 1)

\* the population size that the recount of the offspring asks for:
\* `let new_population_size = 0; //TODO list_of_new_species.count_individuals();`
RecountSize(conf, new_species_collection) ==
    conf.total_population_size - 0

\* next_generation, the new collection: the promoted species of the seed
PromotedCollection(seed) ==
    CollectionNewFromIter([i \in 1..Len(seed.new_species_collection) |->
                              RcSpeciesPromote(seed.new_species_collection[i])])

\* next_generation once the orphans are placed and the offspring recounted
PrepareWith(g, adopted, counted) ==
    IF counted.panic # NoPanic THEN [panic |-> counted.panic]
    ELSE IF counted.err # ""
    THEN [panic |-> "called Result::unwrap() on an Err value: Generated species_offspring_amount"]
    ELSE [panic           |-> NoPanic,
          sc              |-> adopted.sc,
          next_species_id |-> adopted.next_species_id,
          amounts         |-> counted.amounts,
          self            |-> [g EXCEPT !.species_collection = counted.sc]]

\* next_generation once the orphans are placed
PrepareAdopted(g, conf, adopted) ==
    PrepareWith(g, adopted, CountOffsprings(g, RecountSize(conf, adopted.sc)))

\* next_generation up to the recount of the offspring: the new collection
\* with the orphans placed, the id counter, the quotas, and the Genus it is
\* called on as count_offsprings leaves it
NextGenerationPrepare(g, conf, seed) ==
    IF SeedSharesIndividuals(seed)
    THEN [panic |-> "called Result::unwrap() on an Err value: Rc"]
    ELSE PrepareAdopted(g, conf,
                        AdoptOrphans(PromotedCollection(seed), g.next_species_id,
                                     seed.orphans, 1))

\* a zip that leaves the last species that has a snapshot unpaired
PairedAllButLast(pre, seed) ==
    IF Len(pre.sc.collection) < Len(seed.old_species_individuals)
    THEN Len(pre.sc.collection) - 1
    ELSE Len(seed.old_species_individuals) - 1

\* how many positions the zip of the new species with the snapshots pairs
PairedCount(pre, seed) ==
    IF Len(pre.sc.collection) < Len(seed.old_species_individuals)
    THEN Len(pre.sc.collection)
    ELSE Len(seed.old_species_individuals)

\* a population management that returns the first `size` individuals of
\* what it is handed
PopulationManagement(new_individuals, old_individuals, size) ==
    SubSeq(new_individuals \o old_individuals, 1, size)

\* the species after the loop of the population management
ManagedSpecies(pre, seed, sizes) ==
    [i \in 1..Len(pre.sc.collection) |->
        IF i <= PairedCount(pre, seed)
        THEN SpeciesSetIndividuals(
                 pre.sc.collection[i],
                 PopulationManagement(SpeciesMembers(pre.sc.collection[i]),
                                      seed.old_species_individuals[i],
                                      sizes[i]))
        ELSE pre.sc.collection[i]]

\* a check of the final population size that accepts any size
PopulationSizeUnchecked(n_individuals, conf) == n_individuals = n_individuals

\* the check of the final population size
PopulationSizeOk(n_individuals, conf) == n_individuals = conf.total_population_size

\* next_generation from the assert section on
FinishWith(pre, conf, sc) ==
    IF ~HasUniqueElements([i \in 1..Len(sc.collection) |-> sc.collection[i].id])
    THEN [panic |-> "assertion failed: has_unique_elements"]
    ELSE IF ~PopulationSizeOk(CollectionCountIndividuals(CollectionCleanup(sc)), conf)
    THEN [panic |-> "count_individuals(new_species_collection) != population_size"]
    ELSE [panic |-> NoPanic,
          genus |-> BuildNextGeneration(CollectionCleanup(sc), pre.next_species_id)]

\* next_generation from the population management on; offspring_amounts[i]
\* is read for every paired position i
NextGenerationFinish(pre, conf, seed, sizes) ==
    IF PairedCount(pre, seed) > Len(pre.amounts)
    THEN [panic |-> "index out of bounds"]
    ELSE FinishWith(pre, conf,
                    [pre.sc EXCEPT !.collection = ManagedSpecies(pre, seed, sizes)])

\* the longest roster a population management may return
PoolSize(pre, seed, i) ==
    Len(pre.sc.collection[i].individuals) + Len(seed.old_species_individuals[i])

\* the sizes a population management may return, one per paired position
PolicySizes(pre, seed) ==
    IF PairedCount(pre, seed) > Len(pre.amounts) THEN {<<>>}
    ELSE {sizes \in [1..PairedCount(pre, seed) -> 0..MaxIndividuals] :
             \A i \in 1..PairedCount(pre, seed) : sizes[i] <= PoolSize(pre, seed, i)}

\* whether every call of the population management returned exactly the
\* target count it was given
PolicyIsExact(pre, sizes) ==
    \A i \in 1..Len(sizes) : sizes[i] = pre.amounts[i]

(***************************************************************************)
(* The state: the caller's Genus and GenusSeed, and what the run has done  *)
(***************************************************************************)
VARIABLES
    genus,               \* the caller's Genus
    seed,                \* the caller's GenusSeed, None when there is none
    aborted,             \* the message of the panic that ended the run, or ""
    next_individual_id,  \* the caller's id_counter
    order,               \* how far the calls have followed the order of one
                         \* generation: 1 speciate (of total_population_size
                         \* individuals), 2 ensure_evaluated_population,
                         \* 3 update, 4 generate_new_individuals,
                         \* 5 GenusSeed.evaluate, 6 next_generation; else 0
    call,                \* the last call: its name, arguments and results
    species              \* a Species the caller owns by itself, None when
                         \* there is none

vars == <<genus, seed, aborted, next_individual_id, order, call, species>>

CallOf(op) ==
    [op           |-> op,
     population   |-> <<>>,
     amounts      |-> <<>>,
     self_after   |-> None,
     orphans      |-> 0,
     spawned      |-> 0,
     policy_exact |-> TRUE,
     is_best_species |-> FALSE,
     previous     |-> "",
     missing      |-> 0,
     evaluator    |-> "",
     evaluated    |-> <<>>,
     best_age_before |-> None,
     crossover    |-> FALSE,
     calls        |-> <<>>,
     child        |-> None]

Init ==
    /\ genus = GenusNew
    /\ seed = None
    /\ aborted = NoPanic
    /\ next_individual_id = 1
    /\ order = 0
    /\ call = CallOf("new")
    /\ species = None

\* the populations the caller builds: fresh individuals, not yet evaluated
Populations(first_id) ==
    UNION {{[k \in 1..n |-> NewIndividual(first_id + k - 1, genomes[k])] :
               genomes \in [1..n -> Genomes]} : n \in 0..MaxPopulation}

\* genus.speciate(population.into_iter())
Speciate ==
    /\ aborted = NoPanic
    /\ UNCHANGED species
    /\ \E population \in Populations(next_individual_id) :
          /\ next_individual_id + Len(population) - 1 <= MaxIndividuals
          /\ genus' = GenusSpeciate(genus, population)
          /\ next_individual_id' = next_individual_id + Len(population)
          /\ order' = IF Len(population) = Conf.total_population_size THEN 1 ELSE 0
          /\ call' = [CallOf("speciate") EXCEPT !.population = population]
    /\ UNCHANGED <<seed, aborted>>

\* genus.ensure_evaluated_population(evaluate)
EnsureEvaluatedResult(r, evaluate_individual) ==
    /\ genus' = r.genus
    /\ aborted' = r.panic
    /\ call' = [CallOf("ensure_evaluated_population") EXCEPT
                   !.evaluator = evaluate_individual,
                   !.evaluated = r.evaluated]

EnsureEvaluatedPopulation ==
    /\ aborted = NoPanic
    /\ UNCHANGED species
    /\ \E evaluate_individual \in Evaluators :
          EnsureEvaluatedResult(
              GenusEnsureEvaluatedPopulationWith(genus, evaluate_individual),
              evaluate_individual)
    /\ order' = IF order = 1 THEN 2 ELSE 0
    /\ UNCHANGED <<seed, next_individual_id>>

\* the age that the species get_best names has when update is called, None
\* when get_best names none
BestAgeBefore(old_best) ==
    IF /\ old_best.panic = NoPanic
       /\ IsSome(old_best.best)
       /\ Unwrap(old_best.best) <= Len(old_best.sc.collection)
    THEN Some(old_best.sc.collection[Unwrap(old_best.best)].age)
    ELSE None

\* genus.update(&conf)
UpdateResult(updated) ==
    /\ aborted' = updated.panic
    /\ genus' = IF updated.panic # NoPanic THEN genus
                ELSE [genus EXCEPT !.species_collection = updated.sc]

Update ==
    /\ aborted = NoPanic
    /\ UNCHANGED species
    /\ \A i \in 1..Len(genus.species_collection.collection) :
          genus.species_collection.collection[i].age.generations < MaxGenerations
    /\ UpdateResult(GenusUpdate(genus, Conf))
    /\ order' = IF order \in {2, 6} THEN 3 ELSE 0
    /\ call' = [CallOf("update") EXCEPT
                   !.best_age_before =
                       BestAgeBefore(CollectionGetBest(genus.species_collection))]
    /\ UNCHANGED <<seed, next_individual_id>>

\* genus.generate_new_individuals(&conf, ...)
GenerateResult(r, n) ==
    IF r.panic # NoPanic
    THEN /\ aborted' = r.panic
         /\ call' = [CallOf("generate_new_individuals") EXCEPT !.previous = call.op]
         /\ UNCHANGED <<genus, seed, next_individual_id>>
    ELSE /\ genus' = r.genus
         /\ seed' = Some(r.seed)
         /\ next_individual_id' = next_individual_id + n
         /\ call' = [CallOf("generate_new_individuals") EXCEPT
                        !.amounts = r.amounts, !.previous = call.op,
                        !.missing = MissingOffsprings(genus, Conf.total_population_size)]
         /\ UNCHANGED aborted

\* how many individuals the call makes
ChildrenToMake(counted) ==
    IF counted.panic = NoPanic /\ counted.err = ""
    THEN NumberOfChildren(counted.amounts) ELSE 0

GenerateWith(counted) ==
    /\ next_individual_id + ChildrenToMake(counted) - 1 <= MaxIndividuals
    /\ \E genomes \in [1..ChildrenToMake(counted) -> Genomes] :
          GenerateResult(GenerateFrom(genus, counted, genomes, next_individual_id),
                         ChildrenToMake(counted))

GenerateNewIndividuals ==
    /\ aborted = NoPanic
    /\ UNCHANGED species
    /\ GenerateWith(CountOffsprings(genus, Conf.total_population_size))
    /\ order' = IF order = 3 THEN 4 ELSE 0

\* generated_individuals.evaluate(evaluate)
SeedEvaluate ==
    /\ aborted = NoPanic
    /\ UNCHANGED species
    /\ IsSome(seed)
    /\ seed' = Some(SeedEvaluated(Unwrap(seed)))
    /\ order' = IF order = 4 THEN 5 ELSE 0
    /\ call' = CallOf("evaluate")
    /\ UNCHANGED <<genus, aborted, next_individual_id>>

\* the caller empties the public field need_evaluation of its seed
ReleaseNeedEvaluation ==
    /\ aborted = NoPanic
    /\ UNCHANGED species
    /\ IsSome(seed)
    /\ Unwrap(seed).need_evaluation # <<>>
    /\ seed' = Some([Unwrap(seed) EXCEPT !.need_evaluation = <<>>])
    /\ order' = 0
    /\ call' = CallOf("release")
    /\ UNCHANGED <<genus, aborted, next_individual_id>>

\* genus = genus.next_generation(&conf, generated_individuals, population_manager)
NextGenerationResult(pre, r, sizes) ==
    /\ aborted' = r.panic
    /\ genus' = IF r.panic # NoPanic THEN genus ELSE r.genus
    /\ call' = [CallOf("next_generation") EXCEPT
                   !.orphans = Len(Unwrap(seed).orphans),
                   !.amounts = pre.amounts,
                   !.self_after = Some(pre.self),
                   !.spawned = pre.next_species_id - genus.next_species_id,
                   !.policy_exact = PolicyIsExact(pre, sizes)]

NextGenerationWith(pre) ==
    IF pre.panic # NoPanic
    THEN /\ aborted' = pre.panic
         /\ call' = [CallOf("next_generation") EXCEPT
                        !.orphans = Len(Unwrap(seed).orphans)]
         /\ UNCHANGED genus
    ELSE \E sizes \in PolicySizes(pre, Unwrap(seed)) :
            NextGenerationResult(pre, NextGenerationFinish(pre, Conf, Unwrap(seed), sizes),
                                 sizes)

NextGeneration ==
    /\ aborted = NoPanic
    /\ UNCHANGED species
    /\ IsSome(seed)
    /\ NextGenerationWith(NextGenerationPrepare(genus, Conf, Unwrap(seed)))
    /\ seed' = None
    /\ order' = IF order = 5 THEN 6 ELSE 0
    /\ UNCHANGED next_individual_id

Next ==
    \/ Speciate
    \/ EnsureEvaluatedPopulation
    \/ Update
    \/ GenerateNewIndividuals
    \/ SeedEvaluate
    \/ ReleaseNeedEvaluation
    \/ NextGeneration

Spec == Init /\ [][Next]_vars

(***************************************************************************)
(* A Species on its own: the caller makes one with Species::new and calls  *)
(* its public methods in any order.                                        *)
(***************************************************************************)
\* an individual of the caller, evaluated or not
Individuals(id) ==
    {NewIndividual(id, genome) : genome \in Genomes}
        \cup {Evaluate(NewIndividual(id, genome)) : genome \in Genomes}

\* the sequences of individuals the caller hands to set_individuals
IndividualSequences(first_id) ==
    UNION {{individuals \in [1..n -> UNION {Individuals(first_id + k - 1) : k \in 1..n}] :
               \A k \in 1..n : individuals[k].id = first_id + k - 1} :
           n \in 0..MaxPopulation - 1}

\* Species::new(individual, 1)
InitSpecies ==
    /\ genus = GenusNew
    /\ seed = None
    /\ aborted = NoPanic
    /\ next_individual_id = 2
    /\ order = 0
    /\ call = CallOf("Species::new")
    /\ species \in {Some(SpeciesNew(individual, 1)) : individual \in Individuals(1)}

\* species.insert(individual)
SpeciesInsertCall ==
    /\ aborted = NoPanic
    /\ next_individual_id <= MaxSpeciesIndividuals
    /\ Len(Unwrap(species).individuals) < MaxPopulation
    /\ \E individual \in Individuals(next_individual_id) :
          species' = Some(SpeciesInsert(Unwrap(species), individual))
    /\ next_individual_id' = next_individual_id + 1
    /\ call' = CallOf("insert")
    /\ UNCHANGED <<genus, seed, aborted, order>>

\* species.set_individuals(individuals.into_iter())
SpeciesSetIndividualsCall ==
    /\ aborted = NoPanic
    /\ \E individuals \in IndividualSequences(next_individual_id) :
          /\ next_individual_id + Len(individuals) - 1 <= MaxSpeciesIndividuals
          /\ species' = Some(SpeciesSetIndividuals(Unwrap(species), individuals))
          /\ next_individual_id' = next_individual_id + Len(individuals)
    /\ call' = CallOf("set_individuals")
    /\ UNCHANGED <<genus, seed, aborted, order>>

\* species.increase_generations()
SpeciesIncreaseGenerations ==
    /\ aborted = NoPanic
    /\ Unwrap(species).age.generations < MaxGenerations
    /\ species' = Some([Unwrap(species) EXCEPT !.age = AgeIncreaseGenerations(@)])
    /\ call' = CallOf("increase_generations")
    /\ UNCHANGED <<genus, seed, aborted, next_individual_id, order>>

\* species.increase_no_improvements_generations()
SpeciesIncreaseNoImprovementsGenerations ==
    /\ aborted = NoPanic
    /\ Unwrap(species).age.no_improvements < MaxGenerations
    /\ species' = Some([Unwrap(species) EXCEPT !.age = AgeIncreaseNoImprovements(@)])
    /\ call' = CallOf("increase_no_improvements_generations")
    /\ UNCHANGED <<genus, seed, aborted, next_individual_id, order>>

\* species.reset_age()
SpeciesResetAgeCall ==
    /\ aborted = NoPanic
    /\ species' = Some(SpeciesResetAge(Unwrap(species)))
    /\ call' = CallOf("reset_age")
    /\ UNCHANGED <<genus, seed, aborted, next_individual_id, order>>

\* species.compute_adjust_fitness(is_best_species, &conf)
SpeciesComputeAdjustFitnessCall ==
    /\ aborted = NoPanic
    /\ \E is_best_species \in BOOLEAN :
          /\ call' = [CallOf("compute_adjust_fitness") EXCEPT
                         !.is_best_species = is_best_species]
          /\ IF Unwrap(species).individuals = <<>>
             THEN /\ aborted' = "assertion failed: !self.is_empty()"
                  /\ UNCHANGED species
             ELSE /\ species' = Some(SpeciesComputeAdjustFitness(
                                         Unwrap(species), is_best_species, Conf))
                  /\ UNCHANGED aborted
    /\ UNCHANGED <<genus, seed, next_individual_id, order>>

NextSpecies ==
    \/ SpeciesInsertCall
    \/ SpeciesSetIndividualsCall
    \/ SpeciesIncreaseGenerations
    \/ SpeciesIncreaseNoImprovementsGenerations
    \/ SpeciesResetAgeCall
    \/ SpeciesComputeAdjustFitnessCall

SpecSpecies == InitSpecies /\ [][NextSpecies]_vars

(***************************************************************************)
(* A third specification: a Genus whose caller hands speciate individuals  *)
(* that may have been evaluated already, and calls speciate,               *)
(* ensure_evaluated_population and update in any order.                    *)
(***************************************************************************)
\* the populations of a caller that has evaluated some individuals itself
PopulationsOfAny(first_id) ==
    UNION {{[k \in 1..n |->
                IF k \in evaluated
                THEN Evaluate(NewIndividual(first_id + k - 1, genomes[k]))
                ELSE NewIndividual(first_id + k - 1, genomes[k])] :
               genomes \in [1..n -> Genomes], evaluated \in SUBSET (1..n)} :
           n \in 0..MaxPopulation}

\* genus.speciate(population.into_iter()), of such a population
SpeciateAny ==
    /\ aborted = NoPanic
    /\ UNCHANGED species
    /\ \E population \in PopulationsOfAny(next_individual_id) :
          /\ next_individual_id + Len(population) - 1 <= MaxIndividuals
          /\ genus' = GenusSpeciate(genus, population)
          /\ next_individual_id' = next_individual_id + Len(population)
          /\ order' = 0
          /\ call' = [CallOf("speciate") EXCEPT !.population = population]
    /\ UNCHANGED <<seed, aborted>>

NextAny ==
    \/ SpeciateAny
    \/ EnsureEvaluatedPopulation
    \/ Update

SpecAny == Init /\ [][NextAny]_vars

(***************************************************************************)
(* A fourth specification: a Genus whose species have lived through        *)
(* earlier generations. next_generation hands every species its age on     *)
(* (clone_with_new_individuals), so update meets species of any age; here  *)
(* the collection is filled species by species, each with the age that a   *)
(* number of increase_generations and increase_no_improvements_generations *)
(* calls leave, and update is called with any thresholds.                  *)
(***************************************************************************)
\* the thresholds of the Conf that the caller hands to update
ThresholdConfs ==
    {[Conf EXCEPT !.young_age_threshold = young,
                  !.old_age_threshold = old,
                  !.species_max_stagnation = stagnation] :
        young \in 0..MaxGenerations, old \in 0..MaxGenerations,
        stagnation \in 0..MaxGenerations}

\* the members of a species that is pushed: evaluated individuals
MemberSequences(first_id) ==
    UNION {{[k \in 1..n |-> Evaluate(NewIndividual(first_id + k - 1, genomes[k]))] :
               genomes \in [1..n -> Genomes]} : n \in 1..MaxMembers}

\* Species::new(first, id), insert of the other members, and the calls
\* that age the species
RECURSIVE InsertFrom(_, _, _)
InsertFrom(s, individuals, k) ==
    IF k > Len(individuals) THEN s
    ELSE InsertFrom(SpeciesInsert(s, individuals[k]), individuals, k + 1)

AgedSpecies(individuals, species_id, generations, no_improvements) ==
    [InsertFrom(SpeciesNew(individuals[1], species_id), individuals, 2) EXCEPT
        !.age.generations = generations,
        !.age.no_improvements = no_improvements]

\* collection.push(species), with the id that the Genus hands out
PushSpecies ==
    /\ aborted = NoPanic
    /\ UNCHANGED species
    /\ Len(genus.species_collection.collection) < MaxCollection
    /\ \E individuals \in MemberSequences(next_individual_id) :
          /\ next_individual_id + Len(individuals) - 1 <= MaxSpeciesIndividuals
          /\ \E generations \in 0..(MaxGenerations - 1),
                no_improvements \in 0..(MaxGenerations - 1) :
                genus' = [next_species_id    |-> NextSpeciesIdAfter(genus.next_species_id),
                          species_collection |->
                              CollectionPush(genus.species_collection,
                                             AgedSpecies(individuals, genus.next_species_id,
                                                         generations, no_improvements))]
          /\ next_individual_id' = next_individual_id + Len(individuals)
    /\ call' = CallOf("push")
    /\ UNCHANGED <<seed, aborted, order>>

\* genus.update(&conf) with any thresholds
UpdateAny ==
    /\ aborted = NoPanic
    /\ UNCHANGED species
    /\ \A i \in 1..Len(genus.species_collection.collection) :
          genus.species_collection.collection[i].age.generations < MaxGenerations
    /\ \E conf \in ThresholdConfs : UpdateResult(GenusUpdate(genus, conf))
    /\ call' = [CallOf("update") EXCEPT
                   !.best_age_before =
                       BestAgeBefore(CollectionGetBest(genus.species_collection))]
    /\ UNCHANGED <<seed, next_individual_id, order>>

NextCollection ==
    \/ PushSpecies
    \/ UpdateAny

SpecCollection == Init /\ [][NextCollection]_vars

(***************************************************************************)
(* One child at a time: the caller's Species is the parent pool, and       *)
(* generate_new_individual is called on it as generate_new_individuals     *)
(* calls it, with either setting of conf.crossover and whatever the        *)
(* policies choose.                                                        *)
(***************************************************************************)
\* Self::generate_new_individual(conf, species.iter(), selection,
\* parent_selection, reproduce_individual_1, crossover_individual_2,
\* mutate_individual), with the caller's id counter for the child
GenerateNewIndividualCall ==
    /\ aborted = NoPanic
    /\ next_individual_id <= MaxSpeciesIndividuals
    /\ \E crossover \in BOOLEAN, selected \in 1..MaxPopulation,
          parents \in (1..MaxPopulation) \X (1..MaxPopulation), pick \in 1..2 :
          LET population == SpeciesMembers(Unwrap(species))
              within(k) == IF population = <<>> THEN k = 1 ELSE k <= Len(population)
              r == GenerateNewIndividualWith(
                       [Conf EXCEPT !.crossover = crossover], population,
                       next_individual_id,
                       [selected |-> selected, parents |-> parents, pick |-> pick])
          IN  /\ within(selected) /\ within(parents[1]) /\ within(parents[2])
              /\ aborted' = r.panic
              /\ IF r.panic # NoPanic
                 THEN /\ call' = [CallOf("generate_new_individual") EXCEPT
                                     !.crossover = crossover,
                                     !.population = population]
                      /\ UNCHANGED next_individual_id
                 ELSE /\ call' = [CallOf("generate_new_individual") EXCEPT
                                     !.crossover = crossover,
                                     !.population = population,
                                     !.calls = r.calls, !.child = Some(r.child)]
                      /\ next_individual_id' = next_individual_id + 1
    /\ UNCHANGED <<genus, seed, order, species>>

NextChild ==
    \/ SpeciesInsertCall
    \/ SpeciesSetIndividualsCall
    \/ GenerateNewIndividualCall

SpecChild == InitSpecies /\ [][NextChild]_vars

(***************************************************************************)
(* A whole transition: small populations of the genomes b and c, so that  *)
(* the caller has ids left for the generation and for the population of    *)
(* the Genus that next_generation is called on.                            *)
(***************************************************************************)
\* genus.speciate(population.into_iter())
SpeciateFew ==
    /\ aborted = NoPanic
    /\ UNCHANGED species
    /\ \E population \in
              {p \in Populations(next_individual_id) :
                  /\ Len(p) \in 1..MaxTransitionPopulation
                  /\ \A k \in 1..Len(p) : p[k].genome \in {"b", "c"}} :
          /\ next_individual_id + Len(population) - 1 <= MaxTransitionIndividuals
          /\ genus' = GenusSpeciate(genus, population)
          /\ next_individual_id' = next_individual_id + Len(population)
          /\ order' = IF Len(population) = Conf.total_population_size THEN 1 ELSE 0
          /\ call' = [CallOf("speciate") EXCEPT !.population = population]
    /\ UNCHANGED <<seed, aborted>>

GenerateFewWith(counted) ==
    /\ next_individual_id + ChildrenToMake(counted) - 1 <= MaxTransitionIndividuals
    /\ \E genomes \in [1..ChildrenToMake(counted) -> Genomes] :
          GenerateResult(GenerateFrom(genus, counted, genomes, next_individual_id),
                         ChildrenToMake(counted))

\* genus.generate_new_individuals(&conf, ...)
GenerateFew ==
    /\ aborted = NoPanic
    /\ UNCHANGED species
    /\ GenerateFewWith(CountOffsprings(genus, Conf.total_population_size))
    /\ order' = IF order = 3 THEN 4 ELSE 0

NextTransition ==
    \/ SpeciateFew
    \/ EnsureEvaluatedPopulation
    \/ Update
    \/ GenerateFew
    \/ ReleaseNeedEvaluation
    \/ NextGeneration

SpecTransition == Init /\ [][NextTransition]_vars

(***************************************************************************)
(* Properties                                                              *)
(***************************************************************************)
\* the species of a Genus
SpeciesOf(g) == g.species_collection.collection

\* the rosters of a Genus: per species, the ids of its members in order
RostersOf(g) == [i \in 1..Len(SpeciesOf(g)) |-> IdsOf(SpeciesMembers(SpeciesOf(g)[i]))]

\* the last call was next_generation and it returned a Genus
NextGenerationReturned == call.op = "next_generation" /\ aborted = NoPanic

\* C1: a generation that follows the order of the calls (speciate a
\* population of total_population_size individuals, ensure_evaluated_population,
\* update, generate_new_individuals, GenusSeed.evaluate, next_generation),
\* whose offspring all stay compatible with their parent species and whose
\* population management returns the counts it is asked for, ends with
\* next_generation returning a new Genus and not with an abort.
C1_GenerationInOrderReturnsGenus ==
    (order = 6 /\ call.orphans = 0 /\ call.policy_exact) => aborted = NoPanic

\* C2: whenever next_generation returns, the Genus it returns holds exactly
\* total_population_size individuals; a call that cannot meet this aborts.
C2_ReturnedGenusHasTotalPopulation ==
    NextGenerationReturned =>
        GenusCountIndividuals(genus) = Conf.total_population_size

\* next_generation returned a Genus from a population management that did
\* not return the counts it was asked for
C2_Witness ==
    /\ NextGenerationReturned
    /\ ~call.policy_exact
    /\ GenusCountIndividuals(genus) = Conf.total_population_size

\* C3: the species ids of a Genus are pairwise distinct, whether the Genus
\* was built by speciate or returned by next_generation.
C3_SpeciesIdsDistinct ==
    \A i, j \in 1..Len(SpeciesOf(genus)) :
        i # j => SpeciesOf(genus)[i].id # SpeciesOf(genus)[j].id

\* next_generation returned a Genus that holds a species of the seed next to
\* a species founded by an orphan
C3_Witness ==
    /\ NextGenerationReturned
    /\ call.spawned >= 1
    /\ Len(SpeciesOf(genus)) > call.spawned

\* the species ids a caller holds: those of its Genus and of its GenusSeed
HeldSpeciesIds(g, s) ==
    {SpeciesOf(g)[i].id : i \in 1..Len(SpeciesOf(g))}
        \cup (IF IsSome(s)
               THEN {Unwrap(s).new_species_collection[i].id :
                        i \in 1..Len(Unwrap(s).new_species_collection)}
               ELSE {})

\* C4: species ids are handed out in strictly increasing order and
\* next_species_id never decreases: across every call the counter does not
\* go down, every id the call hands out is at least the counter before the
\* call, and every id held lies below the counter after it.
C4_SpeciesIdsIncrease ==
    [][/\ genus'.next_species_id >= genus.next_species_id
       /\ \A id \in HeldSpeciesIds(genus', seed') :
              /\ id < genus'.next_species_id
              /\ id \notin HeldSpeciesIds(genus, seed) => id >= genus.next_species_id]_vars

\* a Genus speciated again after ids had been handed out: its species carry
\* ids above the ones handed out before
C4_Witness ==
    /\ call.op = "speciate"
    /\ SpeciesOf(genus) # <<>>
    /\ \A i \in 1..Len(SpeciesOf(genus)) : SpeciesOf(genus)[i].id > 1
    /\ genus.next_species_id = SpeciesOf(genus)[Len(SpeciesOf(genus))].id + 1

\* a Genus with a species, every species with members, every member with an
\* adjusted fitness, and a positive total adjusted fitness
HasPositiveAdjustedFitness(g) ==
    /\ SpeciesOf(g) # <<>>
    /\ \A i \in 1..Len(SpeciesOf(g)) :
          /\ SpeciesOf(g)[i].individuals # <<>>
          /\ SpeciesHasAdjustedFitness(SpeciesOf(g)[i])
    /\ QIsPositive(SumAccumulated(SpeciesOf(g), 1))

\* count_offsprings(n) returned Ok with amounts that sum to n
CountsExactly(counted, n) ==
    /\ counted.panic = NoPanic
    /\ counted.err = ""
    /\ SeqSum(counted.amounts) = n

\* C5: on a Genus with a species and a positive total adjusted fitness,
\* count_offsprings(n) returns amounts that sum to n for every n > 0, whether
\* the Genus holds more individuals than n or fewer.
C5_CountOffspringsSumsToRequest ==
    HasPositiveAdjustedFitness(genus) =>
        \A n \in 1..MaxPopulation : CountsExactly(CountOffsprings(genus, n), n)

\* the last call was generate_new_individuals and it returned a GenusSeed
GenerateReturned ==
    call.op = "generate_new_individuals" /\ aborted = NoPanic /\ IsSome(seed)

\* how many individuals a GenusSeed holds staged in its species
StagedCount(s) ==
    SeqSum([i \in 1..Len(s.new_species_collection) |->
               Len(s.new_species_collection[i].individuals)])

\* C6: generate_new_individuals makes offspring_amounts[i] new individuals
\* for each species i: the individuals it made are as many as the amounts in
\* total, no species has more staged than its amount, and the staged and
\* the orphaned individuals of the GenusSeed together are
\* total_population_size.
C6_OneIndividualPerUnitOfQuota ==
    GenerateReturned =>
        /\ Len(Unwrap(seed).need_evaluation) = SeqSum(call.amounts)
        /\ \A i \in 1..Len(call.amounts) :
              Len(Unwrap(seed).new_species_collection[i].individuals) <= call.amounts[i]
        /\ StagedCount(Unwrap(seed)) + Len(Unwrap(seed).orphans) =
               Conf.total_population_size

\* the positions <<i, j>> at which a Genus holds the individual
PlacesOf(g, individual) ==
    {place \in (1..Len(SpeciesOf(g))) \X (1..MaxIndividuals) :
        /\ place[2] <= Len(SpeciesOf(g)[place[1]].individuals)
        /\ SpeciesOf(g)[place[1]].individuals[place[2]].individual = individual}

\* C7: after speciate(population) the species partition the incoming
\* population: every incoming individual is a member of exactly one species,
\* no species is empty, every member is an incoming individual, and
\* count_individuals() is the length of the incoming population.
C7_SpeciatePartitionsPopulation ==
    call.op = "speciate" =>
        /\ \A k \in 1..Len(call.population) :
              Cardinality(PlacesOf(genus, call.population[k])) = 1
        /\ \A i \in 1..Len(SpeciesOf(genus)) :
              /\ SpeciesOf(genus)[i].individuals # <<>>
              /\ \A j \in 1..Len(SpeciesOf(genus)[i].individuals) :
                    \E k \in 1..Len(call.population) :
                        SpeciesOf(genus)[i].individuals[j].individual = call.population[k]
        /\ GenusCountIndividuals(genus) = Len(call.population)

\* a Genus that held members of an earlier population was speciated again,
\* into more than one species
C7_Witness ==
    /\ call.op = "speciate"
    /\ Len(call.population) >= 2
    /\ call.population[1].id > 1
    /\ Len(SpeciesOf(genus)) >= 2

\* the representative of the species at position i of a Genus
RepresentativeOf(g, i) == SpeciesOf(g)[i].individuals[1].individual

C9_PreviousGenusIsReadOnly ==
    [][/\ (call'.op = "generate_new_individuals" /\ aborted' = NoPanic) =>
              RostersOf(genus') = RostersOf(genus)
       /\ (call'.op = "next_generation" /\ IsSome(call'.self_after)) =>
              RostersOf(Unwrap(call'.self_after)) = RostersOf(genus)]_vars

\* C10: when next_generation has an orphan found a species and its
\* population management returns the count it is asked for at every paired
\* position, the call returns a Genus of total_population_size individuals.
C10_RecountLeavesRoomForOrphans ==
    (/\ call.op = "next_generation"
     /\ IsSome(call.self_after)
     /\ call.spawned >= 1
     /\ call.policy_exact) =>
        /\ aborted = NoPanic
        /\ GenusCountIndividuals(genus) = Conf.total_population_size

\* a Genus with a species whose total adjusted fitness is not positive
HasNoAdjustedFitnessToShare(g) ==
    /\ SpeciesOf(g) # <<>>
    /\ \A i \in 1..Len(SpeciesOf(g)) : SpeciesHasAdjustedFitness(SpeciesOf(g)[i])
    /\ ~QIsPositive(SumAccumulated(SpeciesOf(g), 1))

\* C11: when the total adjusted fitness over all species is not positive,
\* count_offsprings hands its caller an error value: it does not abort.
C11_ZeroTotalIsAnErrorValue ==
    HasNoAdjustedFitnessToShare(genus) =>
        \A n \in 1..MaxPopulation :
            /\ CountOffsprings(genus, n).panic = NoPanic
            /\ CountOffsprings(genus, n).err # ""

\* the positions of the species of g whose id the counter `old` had not yet
\* handed out
FreshPositions(g, old) == {i \in 1..Len(SpeciesOf(g)) : SpeciesOf(g)[i].id >= old}

\* the orphans of a GenusSeed that found a species of g
FounderIndexes(g, old, s) ==
    {k \in 1..Len(s.orphans) :
        \E i \in FreshPositions(g, old) : RepresentativeOf(g, i) = s.orphans[k]}

\* whether a staged species of the GenusSeed, or a species founded by an
\* orphan before orphan k, has a representative that accepts orphan k
SomeSpeciesAccepts(g, old, s, k) ==
    \/ \E i \in 1..Len(s.new_species_collection) :
          /\ s.new_species_collection[i].individuals # <<>>
          /\ IndividualIsCompatible(s.new_species_collection[i].individuals[1],
                                    s.orphans[k])
    \/ \E h \in FounderIndexes(g, old, s) :
          h < k /\ IndividualIsCompatible(s.orphans[h], s.orphans[k])

\* C12: in next_generation an orphan that no representative of the new
\* collection accepts founds one species, whose id is the value of the
\* counter at that moment, and the counter of the returned Genus has advanced
\* by one for every such orphan: the species with new ids are as many as the
\* counter has advanced and as many as the orphans that were not accepted,
\* their ids follow each other from the old counter on in the order of the
\* collection, each has such an orphan as its first member, and its other
\* members are orphans that its founder accepts.
C12_OrphanFoundsOneSpecies ==
    [][(call'.op = "next_generation" /\ aborted' = NoPanic) =>
          /\ genus'.next_species_id =
                genus.next_species_id
                    + Cardinality(FreshPositions(genus', genus.next_species_id))
          /\ FounderIndexes(genus', genus.next_species_id, Unwrap(seed)) =
                {k \in 1..Len(Unwrap(seed).orphans) :
                    ~SomeSpeciesAccepts(genus', genus.next_species_id, Unwrap(seed), k)}
          /\ \A i \in FreshPositions(genus', genus.next_species_id) :
                /\ SpeciesOf(genus')[i].id =
                      genus.next_species_id
                          + Cardinality({h \in FreshPositions(genus', genus.next_species_id) :
                                            h < i})
                /\ \E k \in FounderIndexes(genus', genus.next_species_id, Unwrap(seed)) :
                      RepresentativeOf(genus', i) = Unwrap(seed).orphans[k]
                /\ \A j \in 2..Len(SpeciesOf(genus')[i].individuals) :
                      /\ \E k \in 1..Len(Unwrap(seed).orphans) :
                            SpeciesOf(genus')[i].individuals[j].individual =
                                Unwrap(seed).orphans[k]
                      /\ IndividualIsCompatible(
                             RepresentativeOf(genus', i),
                             SpeciesOf(genus')[i].individuals[j].individual)]_vars

\* next_generation returned a Genus in which two orphans have each founded a
\* species
C12_Witness ==
    /\ NextGenerationReturned
    /\ call.spawned >= 2
    /\ Cardinality(FreshPositions(genus, genus.next_species_id - call.spawned)) >= 2

\* the adjusted fitness of every member of a Species, in member order
AdjustedFitnesses(s) ==
    [k \in 1..Len(s.individuals) |-> s.individuals[k].adjusted_fitness]

\* C13: a second compute_adjust_fitness, called directly after a first one
\* with the same is_best_species flag and the same Conf on members whose
\* fitnesses did not change, leaves every member the adjusted fitness the
\* first call gave it, whatever the age and the last best fitness of the
\* species were.
C13_ComputeAdjustFitnessIsIdempotent ==
    [][(/\ call.op = "compute_adjust_fitness"
        /\ call'.op = "compute_adjust_fitness"
        /\ call'.is_best_species = call.is_best_species
        /\ aborted' = NoPanic) =>
          AdjustedFitnesses(Unwrap(species')) = AdjustedFitnesses(Unwrap(species))]_vars

\* whether every member of a species has been evaluated
AllEvaluated(s) ==
    \A k \in 1..Len(s.individuals) : IsSome(s.individuals[k].individual.fitness)

\* whether member k of a species has maximal raw fitness among its members
HasMaximalFitness(s, k) ==
    \A j \in 1..Len(s.individuals) :
        Unwrap(s.individuals[j].individual.fitness)
            <= Unwrap(s.individuals[k].individual.fitness)

\* the first member of maximal raw fitness in the iteration order of a
\* species with evaluated members
FirstOfMaximalFitness(s) ==
    s.individuals[CHOOSE k \in 1..Len(s.individuals) :
                      /\ HasMaximalFitness(s, k)
                      /\ \A j \in 1..(k - 1) : ~HasMaximalFitness(s, j)].individual

\* C14: get_best_individual returns a member of maximal raw fitness, and of
\* several members that share the maximal fitness it returns the first in
\* the iteration order of the species.
C14_BestIndividualIsFirstMaximum ==
    \A i \in 1..Len(SpeciesOf(genus)) :
        (SpeciesOf(genus)[i].individuals # <<>> /\ AllEvaluated(SpeciesOf(genus)[i])) =>
            SpeciesGetBestIndividual(SpeciesOf(genus)[i])
                = Some(FirstOfMaximalFitness(SpeciesOf(genus)[i]))

\* C15: get_best answers with an index for every collection that is not
\* empty, also when no individual has been evaluated yet, so that update
\* called on a Genus that speciate has just filled does not abort for lack
\* of a best species.
C15_NonEmptyCollectionHasBest ==
    [][/\ SpeciesOf(genus) # <<>> =>
             /\ CollectionGetBest(genus.species_collection).panic = NoPanic
             /\ IsSome(CollectionGetBest(genus.species_collection).best)
       /\ (call.op = "speciate" /\ SpeciesOf(genus) # <<>> /\ call'.op = "update") =>
             aborted' # "best should be present"]_vars

\* a Genus one of whose individuals has no adjusted fitness
LacksAdjustedFitness(g) ==
    \E i \in 1..Len(SpeciesOf(g)) : ~SpeciesHasAdjustedFitness(SpeciesOf(g)[i])

\* C16: reading the accumulated adjusted fitness of a species one of whose
\* members has no adjusted fitness is fatal: count_offsprings aborts on such
\* a Genus, and generate_new_individuals called directly after speciate (of
\* a population that is not empty) or directly after next_generation, before
\* update has run, aborts with that error, leaves the Genus as it was and
\* produces no GenusSeed.
C16_MissingAdjustedFitnessIsFatal ==
    [][/\ LacksAdjustedFitness(genus) =>
             \A n \in 1..MaxPopulation :
                 CountOffsprings(genus, n).panic = "An individual has no adjusted fitness"
       /\ (/\ \/ call.op = "speciate" /\ GenusCountIndividuals(genus) > 0
              \/ NextGenerationReturned
           /\ call'.op = "generate_new_individuals") =>
             /\ aborted' = "An individual has no adjusted fitness"
             /\ genus' = genus
             /\ seed' = seed]_vars

\* generate_new_individuals was called on the Genus that next_generation had
\* just returned, and aborted
C16_Witness ==
    /\ call.op = "generate_new_individuals"
    /\ call.previous = "next_generation"
    /\ GenusCountIndividuals(genus) > 0
    /\ aborted = "An individual has no adjusted fitness"

\* the raw quotas of a Genus: floor(accumulated / average) per species
FloorQuotas(g) == CalculatePopulationSize(g, CalculateAverageFitness(g))

\* the floor quotas with all that they lack of n added to the quota of the
\* species at position best
FloorsWithDeficitAt(floors, best, n) ==
    [i \in 1..Len(floors) |-> floors[i] + (IF i = best THEN n - SeqSum(floors) ELSE 0)]

\* whether the floor quotas sum to less than n and get_best has designated
\* a species
UndershootsWithBest(floors, best, n) ==
    /\ SeqSum(floors) < n
    /\ IsSome(best)
    /\ Unwrap(best) <= Len(floors)

\* two species with accumulated adjusted fitness 30 and 10 over ten
\* individuals, the first holding the fitter individuals
ExampleMembers(first_id, fitness, adjusted) ==
    [k \in 1..5 |->
        [individual |-> [id |-> first_id + k, genome |-> "a", fitness |-> Some(fitness)],
         adjusted_fitness |-> Some([num |-> FFromNat(adjusted), den |-> 1])]]

ExampleGenus ==
    BuildNextGeneration(
        CollectionNewFromIter(
            <<[SpeciesNew(NewIndividual(0, "a"), 1) EXCEPT
                  !.individuals = ExampleMembers(0, 1, 6)],
              [SpeciesNew(NewIndividual(0, "a"), 2) EXCEPT
                  !.individuals = ExampleMembers(5, 0, 2)]>>),
        3)

\* C17: when the floor quotas sum to less than the number asked for,
\* count_offsprings adds the whole deficit to the quota of the one species
\* that get_best designates and leaves every other quota at its floor
\* (accumulated adjusted fitness 30 and 10 over ten individuals, ten asked
\* for: 8 and 2), and generate_new_individuals works with those quotas.
C17_DeficitGoesToBestSpecies ==
    [][/\ call.op = "new" =>
             /\ FloorQuotas(ExampleGenus) = <<7, 2>>
             /\ CountOffsprings(ExampleGenus, 10).amounts = <<8, 2>>
       /\ (/\ call'.op = "generate_new_individuals"
           /\ HasPositiveAdjustedFitness(genus)
           /\ UndershootsWithBest(FloorQuotas(genus),
                                  CollectionGetBest(genus.species_collection).best,
                                  Conf.total_population_size)) =>
             /\ aborted' = NoPanic
             /\ call'.missing > 0
             /\ call'.amounts =
                   FloorsWithDeficitAt(
                       FloorQuotas(genus),
                       Unwrap(CollectionGetBest(genus.species_collection).best),
                       Conf.total_population_size)]_vars

\* generate_new_individuals has worked with quotas of which the one of the
\* best species, not the first of the collection, took up a deficit
C17_Witness ==
    /\ GenerateReturned
    /\ call.missing > 0
    /\ Len(call.amounts) >= 2
    /\ call.amounts[1] < call.amounts[Len(call.amounts)]

\* the individuals of a Genus, species after species
IndividualsOf(g) ==
    ConcatAll([i \in 1..Len(SpeciesOf(g)) |-> SpeciesMembers(SpeciesOf(g)[i])])

\* the ids of the individuals of a Genus that have no fitness
UnevaluatedIds(g) ==
    {IndividualsOf(g)[k].id : k \in {j \in 1..Len(IndividualsOf(g)) :
                                        ~IsSome(IndividualsOf(g)[j].fitness)}}

\* the ids in a sequence
IdSet(ids) == {ids[k] : k \in 1..Len(ids)}

\* C19: ensure_evaluated_population calls the evaluation capability on no
\* individual that has a fitness and at most once on one that has none;
\* when it returns it has called it exactly once on every individual that had
\* no fitness, and every individual of the Genus then reports a fitness, the
\* one the capability returned for it; and it aborts when the capability
\* returns another value than the individual then reports, or has set none.
C19_EvaluatesExactlyTheUnevaluated ==
    [][call'.op = "ensure_evaluated_population" =>
          /\ Cardinality(IdSet(call'.evaluated)) = Len(call'.evaluated)
          /\ IdSet(call'.evaluated) \subseteq UnevaluatedIds(genus)
          /\ aborted' = NoPanic =>
                /\ IdSet(call'.evaluated) = UnevaluatedIds(genus)
                /\ UnevaluatedIds(genus') = {}
                /\ Len(IndividualsOf(genus')) = Len(IndividualsOf(genus))
                /\ \A k \in 1..Len(IndividualsOf(genus)) :
                      IndividualsOf(genus')[k] =
                          IF IsSome(IndividualsOf(genus)[k].fitness)
                          THEN IndividualsOf(genus)[k]
                          ELSE Evaluate(IndividualsOf(genus)[k])
          /\ (call'.evaluator = "reports") =>
                /\ aborted' = NoPanic
                /\ genus' = GenusEnsureEvaluatedPopulation(genus)
          /\ (call'.evaluator # "reports" /\ UnevaluatedIds(genus) # {}) =>
                /\ aborted' # NoPanic
                /\ Len(call'.evaluated) = 1]_vars

\* ensure_evaluated_population has returned without a call of the
\* capability, from a Genus all of whose individuals, more than one, had a
\* fitness from an earlier evaluation
C19_Witness ==
    /\ call.op = "ensure_evaluated_population"
    /\ aborted = NoPanic
    /\ call.evaluated = <<>>
    /\ Len(IndividualsOf(genus)) >= 2
    /\ UnevaluatedIds(genus) = {}

\* the age that compute_update leaves to the species at position i, given
\* the age it had and the answer of get_best before the increments
AgeAfterUpdate(age, i, best) ==
    IF best = Some(i)
    THEN [generations |-> 0, evaluations |-> age.evaluations, no_improvements |-> 0]
    ELSE [generations     |-> age.generations + 1,
          evaluations     |-> age.evaluations,
          no_improvements |-> age.no_improvements + 1]

\* whether the collection `after` is `before` with the ages of C20 and
\* nothing else of a species changed
AgedThenRejuvenated(before, after, best) ==
    /\ Len(after) = Len(before)
    /\ \A i \in 1..Len(before) :
          after[i] = [before[i] EXCEPT !.age = AgeAfterUpdate(@, i, best)]

\* C20: compute_update ages every species and then rejuvenates the best one:
\* afterwards the species that get_best designated before the increments
\* has generations 0 and no_improvements 0, every other species has
\* generations and no_improvements one greater each than before, and the
\* evaluations of no species have changed; after update, which then
\* computes the adjusted fitnesses, the generations and evaluations are
\* still those.
C20_AgesThenRejuvenatesBest ==
    [][/\ (/\ SpeciesOf(genus) # <<>>
           /\ CollectionComputeUpdate(genus.species_collection).panic = NoPanic) =>
             AgedThenRejuvenated(
                 SpeciesOf(genus),
                 CollectionComputeUpdate(genus.species_collection).sc.collection,
                 CollectionGetBest(genus.species_collection).best)
       /\ (call'.op = "update" /\ aborted' = NoPanic) =>
             \A i \in 1..Len(SpeciesOf(genus)) :
                 /\ SpeciesOf(genus')[i].age.generations =
                       AgeAfterUpdate(SpeciesOf(genus)[i].age, i,
                           CollectionGetBest(genus.species_collection).best).generations
                 /\ SpeciesOf(genus')[i].age.evaluations =
                       SpeciesOf(genus)[i].age.evaluations
                 /\ SpeciesOf(genus')[i].age.no_improvements \in
                       {0, AgeAfterUpdate(SpeciesOf(genus)[i].age, i,
                               CollectionGetBest(genus.species_collection).best).no_improvements}]_vars

\* update has returned a Genus with a rejuvenated best species and another
\* species that it has aged and that has not improved
C20_Witness ==
    /\ call.op = "update"
    /\ aborted = NoPanic
    /\ \E i, j \in 1..Len(SpeciesOf(genus)) :
          /\ SpeciesOf(genus)[i].age.generations = 0
          /\ SpeciesOf(genus)[j].age.generations >= 1
          /\ SpeciesOf(genus)[j].age.no_improvements >= 1
          /\ genus.species_collection.best = Some(i)

\* C21: a call that changes the species sequence of the collection by
\* push, clear or cleanup leaves the cache of the best index marked dirty:
\* after speciate, which clears the collection and pushes the species it
\* makes, and after a next_generation that returns, which pushes the species
\* the orphans found and cleans up, cache_need_updating holds.
C21_MutatorsMarkCacheDirty ==
    [][(\/ call'.op = "speciate"
        \/ call'.op = "next_generation" /\ aborted' = NoPanic) =>
          genus'.species_collection.cache_need_updating]_vars

\* the positions of the species that compute_adjust_fitness of the
\* collection flags as best: those that carry the id of the species at the
\* cached best index
FlaggedAsBest(g) ==
    {i \in 1..Len(SpeciesOf(g)) :
        SpeciesOf(g)[i].id = SpeciesOf(g)[Unwrap(g.species_collection.best)].id}

\* whether the best individual of species i of a Genus has a raw fitness,
\* and one that no best individual of another species exceeds
HasBestFitnessOfAll(g, i) ==
    /\ IsSome(SpeciesGetBestFitness(SpeciesOf(g)[i]))
    /\ \A j \in 1..Len(SpeciesOf(g)) :
          IsSome(SpeciesGetBestFitness(SpeciesOf(g)[j])) =>
              Unwrap(SpeciesGetBestFitness(SpeciesOf(g)[j]))
                  <= Unwrap(SpeciesGetBestFitness(SpeciesOf(g)[i]))

\* C22: whenever update computes adjusted fitness, after any sequence of
\* calls of speciate, ensure_evaluated_population and update, it flags
\* exactly one species as best, and the best individual of that species has
\* a raw fitness that is maximal among the best individuals of all species:
\* the cached best index is never one computed for other members or other
\* fitnesses.
C22_UpdateFlagsAMaximalSpecies ==
    [][(call'.op = "update" /\ aborted' = NoPanic) =>
          /\ IsSome(genus'.species_collection.best)
          /\ Unwrap(genus'.species_collection.best) \in 1..Len(SpeciesOf(genus'))
          /\ FlaggedAsBest(genus') = {Unwrap(genus'.species_collection.best)}
          /\ HasBestFitnessOfAll(genus', Unwrap(genus'.species_collection.best))]_vars

\* whether a member of a species carries neither the penalty of old age
\* nor that of stagnation: its adjusted fitness is its raw fitness (the
\* small one for a fitness of zero), boosted or not, over the number of
\* members
CarriesNoPenalty(s, k, conf) ==
    \/ s.individuals[k].adjusted_fitness =
           Some([num |-> NonZeroFitness(FitnessOrZero(s.individuals[k].individual)),
                 den |-> Len(s.individuals)])
    \/ s.individuals[k].adjusted_fitness =
           Some([num |-> FMul(NonZeroFitness(FitnessOrZero(s.individuals[k].individual)),
                              conf.young_age_fitness_boost),
                 den |-> Len(s.individuals)])

\* C23: after update no member of the species it has flagged as best
\* carries the penalty of old age or that of stagnation in its adjusted
\* fitness, whatever generations and no_improvements the species had before
\* the call and whatever the thresholds of the Conf are.
C23_BestSpeciesCarriesNoPenalty ==
    [][(call'.op = "update" /\ aborted' = NoPanic) =>
          \A i \in FlaggedAsBest(genus') :
              \A k \in 1..Len(SpeciesOf(genus')[i].individuals) :
                  CarriesNoPenalty(SpeciesOf(genus')[i], k, Conf)]_vars

\* update has returned on a Genus of two species whose best species had
\* been through a generation without improvement when it was called
C23_Witness ==
    /\ call.op = "update"
    /\ aborted = NoPanic
    /\ Len(SpeciesOf(genus)) >= 2
    /\ IsSome(call.best_age_before)
    /\ Unwrap(call.best_age_before).generations >= 1
    /\ Unwrap(call.best_age_before).no_improvements >= 1

\* whether some member of a species has a fitness (the small one for a
\* fitness of zero) above the last best fitness of the species
HasBetterMember(s) ==
    \E k \in 1..Len(s.individuals) :
        FLess(s.last_best_fitness, NonZeroFitness(FitnessOrZero(s.individuals[k].individual)))

\* C24: in every update the no_improvements counter of a species that is
\* not the best one grows by one, and it returns to zero only when some
\* member has a fitness strictly above the last best fitness of the
\* species: a species whose highest fitness equals its last best fitness
\* leaves each update with no_improvements one higher than before.
C24_NoImprovementsCountsUpdates ==
    [][(call'.op = "update" /\ aborted' = NoPanic) =>
          \A i \in 1..Len(SpeciesOf(genus)) :
              i \notin FlaggedAsBest(genus') =>
                  SpeciesOf(genus')[i].age.no_improvements =
                      IF HasBetterMember(SpeciesOf(genus)[i]) THEN 0
                      ELSE SpeciesOf(genus)[i].age.no_improvements + 1]_vars

\* the multipliers with the thresholds taken as the Conf documents them,
\* inclusive: young up to and including young_age_threshold, old from
\* old_age_threshold on, stagnating from species_max_stagnation on
InclusiveBoost(fitness, age, conf) ==
    IF age.generations <= conf.young_age_threshold
    THEN FMul(fitness, conf.young_age_fitness_boost)
    ELSE fitness

InclusiveOldPenalty(fitness, age, conf) ==
    IF age.generations >= conf.old_age_threshold
    THEN FMul(fitness, conf.old_age_fitness_penalty)
    ELSE fitness

InclusiveStagnationPenalty(fitness, is_best_species, age, conf) ==
    IF ~is_best_species /\ age.no_improvements >= conf.species_max_stagnation
    THEN FMulStagnation(fitness)
    ELSE fitness

InclusiveMultipliers(fitness, is_best_species, age, conf) ==
    InclusiveStagnationPenalty(
        InclusiveOldPenalty(InclusiveBoost(fitness, age, conf), age, conf),
        is_best_species, age, conf)

\* C25: the thresholds are inclusive, as the Conf documents them. A
\* compute_adjust_fitness pass over a species none of whose members renews
\* the last best fitness (so that the age stays as it was throughout the
\* pass) gives every member its fitness with the boost when generations is
\* at most young_age_threshold, with the old-age penalty when generations
\* is at least old_age_threshold, and, for a species that is not the best,
\* with the stagnation penalty when no_improvements is at least
\* species_max_stagnation.
C25_ThresholdsAreInclusive ==
    [][(/\ call'.op = "compute_adjust_fitness"
        /\ aborted' = NoPanic
        /\ \A k \in 1..Len(Unwrap(species).individuals) :
              ~RenewsBestFitness(
                   NonZeroFitness(FitnessOrZero(Unwrap(species).individuals[k].individual)),
                   Unwrap(species).last_best_fitness)) =>
          \A k \in 1..Len(Unwrap(species').individuals) :
              Unwrap(species').individuals[k].adjusted_fitness =
                  Some([num |-> InclusiveMultipliers(
                                    NonZeroFitness(FitnessOrZero(
                                        Unwrap(species).individuals[k].individual)),
                                    call'.is_best_species, Unwrap(species).age, Conf),
                        den |-> Len(Unwrap(species).individuals)])]_vars

\* whether the last best fitness of a species is at least the fitness (the
\* small one for a fitness of zero) of each of its members
CoversMembers(s) ==
    \A k \in 1..Len(s.individuals) :
        FLeq(NonZeroFitness(FitnessOrZero(s.individuals[k].individual)),
             s.last_best_fitness)

\* whether each species of `after` that has the id of a species of `before`
\* has at least the last best fitness of that species
LastBestKept(before, after) ==
    \A i \in 1..Len(before) : \A j \in 1..Len(after) :
        after[j].id = before[i].id =>
            FLeq(before[i].last_best_fitness, after[j].last_best_fitness)

\* C26: the last best fitness of a species never decreases. An update
\* leaves every species a last best fitness that is at least the one it had
\* and at least the fitness of each member; generate_new_individuals hands
\* it on to the staged species and leaves it to the species of the Genus,
\* and next_generation hands it on to the species of the Genus it returns.
C26_LastBestFitnessNeverDecreases ==
    [][/\ (call'.op = "update" /\ aborted' = NoPanic) =>
             /\ LastBestKept(SpeciesOf(genus), SpeciesOf(genus'))
             /\ \A i \in 1..Len(SpeciesOf(genus')) :
                   /\ SpeciesOf(genus')[i].id = SpeciesOf(genus)[i].id
                   /\ CoversMembers(SpeciesOf(genus')[i])
       /\ (call'.op = "generate_new_individuals" /\ aborted' = NoPanic) =>
             /\ LastBestKept(SpeciesOf(genus), SpeciesOf(genus'))
             /\ LastBestKept(SpeciesOf(genus), Unwrap(seed').new_species_collection)
             /\ Len(Unwrap(seed').new_species_collection) = Len(SpeciesOf(genus))
       /\ (call'.op = "next_generation" /\ aborted' = NoPanic) =>
             LastBestKept(Unwrap(seed).new_species_collection, SpeciesOf(genus'))]_vars

\* update has returned and left a species a last best fitness above the
\* fitness of every member it has now
C26_Witness ==
    /\ call.op = "update"
    /\ aborted = NoPanic
    /\ \E i \in 1..Len(SpeciesOf(genus)) :
          \A k \in 1..Len(SpeciesOf(genus)[i].individuals) :
              FLess(NonZeroFitness(FitnessOrZero(SpeciesOf(genus)[i].individuals[k].individual)),
                    SpeciesOf(genus)[i].last_best_fitness)

\* a species with its members in the order p
Permuted(s, p) ==
    [s EXCEPT !.individuals = [k \in 1..Len(s.individuals) |-> s.individuals[p[k]]]]

\* whether the pass over the permuted species has given each member the
\* adjusted fitness that `adjusted` holds for it
SameAdjustedFitness(permuted, p, adjusted) ==
    \A k \in 1..Len(adjusted.individuals) :
        permuted.individuals[k].adjusted_fitness = adjusted.individuals[p[k]].adjusted_fitness

\* C27: within one compute_adjust_fitness pass every member receives the
\* same multipliers, so that the adjusted fitness of a member does not
\* depend on the order of the members: the pass over the same species with
\* its members in any other order gives each member the same adjusted
\* fitness.
C27_AdjustedFitnessIgnoresMemberOrder ==
    [][(call'.op = "compute_adjust_fitness" /\ aborted' = NoPanic) =>
          \A p \in Permutations(1..Len(Unwrap(species).individuals)) :
              SameAdjustedFitness(
                  SpeciesComputeAdjustFitness(Permuted(Unwrap(species), p),
                                              call'.is_best_species, Conf),
                  p, Unwrap(species'))]_vars

\* the places (species, member) at which a collection holds an individual
PlacesIn(collection, individual) ==
    {place \in (1..Len(collection)) \X (1..MaxIndividuals) :
        /\ place[2] <= Len(collection[place[1]].individuals)
        /\ collection[place[1]].individuals[place[2]].individual = individual}

\* whether orphan k sits at `place` as the loop over the orphans must have
\* put it: as the first member of a species behind the staged ones or as a
\* later member of a species whose representative accepts it, with no
\* earlier species that has a representative accepting it, behind the
\* orphans that came before it into the same species, and, when it founds a
\* species, behind the species that earlier orphans have founded
PlacedAtFirstCompatible(staged, orphans, adopted, k, place) ==
    /\ place[2] > Len(IF place[1] <= Len(staged)
                      THEN staged[place[1]].individuals ELSE <<>>)
    /\ place[2] = 1 <=> (place[1] > Len(staged)
                           /\ adopted[place[1]].individuals[1].individual = orphans[k])
    /\ place[2] > 1 =>
          IndividualIsCompatible(adopted[place[1]].individuals[1].individual, orphans[k])
    /\ \A h \in 1..(place[1] - 1) :
          \/ adopted[h].individuals = <<>>
          \/ ~IndividualIsCompatible(adopted[h].individuals[1].individual, orphans[k])
    /\ \A earlier \in 1..(k - 1) :
          \A other \in PlacesIn(adopted, orphans[earlier]) :
              /\ other[1] = place[1] => other[2] < place[2]
              /\ (other[2] = 1 /\ place[2] = 1) => other[1] < place[1]

\* whether `adopted` is the collection `staged` with every orphan placed at
\* the first species that accepts it
AdoptsAtFirstCompatible(staged, orphans, adopted) ==
    /\ Len(adopted) >= Len(staged)
    /\ \A i \in 1..Len(staged) :
          /\ SubSeq(adopted[i].individuals, 1, Len(staged[i].individuals))
                = staged[i].individuals
          /\ staged[i].individuals = <<>> => adopted[i].individuals = <<>>
    /\ SeqSum([i \in 1..Len(adopted) |-> Len(adopted[i].individuals)])
          = SeqSum([i \in 1..Len(staged) |-> Len(staged[i].individuals)]) + Len(orphans)
    /\ \A k \in 1..Len(orphans) :
          /\ Cardinality(PlacesIn(adopted, orphans[k])) = 1
          /\ \A place \in PlacesIn(adopted, orphans[k]) :
                PlacedAtFirstCompatible(staged, orphans, adopted, k, place)

\* the ids of the members of the species of a collection
MemberIds(collection) ==
    [i \in 1..Len(collection) |->
        [j \in 1..Len(collection[i].individuals) |->
            collection[i].individuals[j].individual.id]]

\* a new collection of four staged species, the first without members, the
\* others with the representatives c, b and a, and three orphans a, c, a:
\* b and a both accept an orphan a, nobody accepts an orphan c
ExampleStaged ==
    CollectionNewFromIter(
        <<SpeciesDrained(SpeciesNew(NewIndividual(0, "a"), 1)),
          SpeciesNew(Evaluate(NewIndividual(1, "c")), 2),
          SpeciesNew(Evaluate(NewIndividual(2, "b")), 3),
          SpeciesNew(Evaluate(NewIndividual(3, "a")), 4)>>)

ExampleOrphans ==
    <<Evaluate(NewIndividual(4, "a")), Evaluate(NewIndividual(5, "c")),
      Evaluate(NewIndividual(6, "a"))>>

\* C28: next_generation places the orphans in their order, each in the
\* first species of the new collection (the staged species, then the
\* species that earlier orphans of the same call have founded) whose
\* representative is compatible with it; a staged species without members
\* adopts none; an orphan founds a species only when no species accepts it
\* (in the example both orphans a join the species of b, which comes before
\* that of a, and the orphan c founds a fifth species).
C28_OrphansGoToFirstCompatibleSpecies ==
    [][/\ call.op = "new" =>
             /\ MemberIds(AdoptOrphans(ExampleStaged, 5, ExampleOrphans, 1).sc.collection)
                   = <<(<<>>), <<1>>, <<2, 4, 6>>, <<3>>, <<5>>>>
             /\ AdoptsAtFirstCompatible(
                    ExampleStaged.collection, ExampleOrphans,
                    AdoptOrphans(ExampleStaged, 5, ExampleOrphans, 1).sc.collection)
       /\ (call'.op = "next_generation" /\ ~SeedSharesIndividuals(Unwrap(seed))) =>
             AdoptsAtFirstCompatible(
                 PromotedCollection(Unwrap(seed)).collection,
                 Unwrap(seed).orphans,
                 AdoptOrphans(PromotedCollection(Unwrap(seed)), genus.next_species_id,
                              Unwrap(seed).orphans, 1).sc.collection)]_vars

\* next_generation has placed two orphans or more, of which one was adopted
\* and one has founded a species
C28_Witness ==
    /\ call.op = "next_generation"
    /\ IsSome(call.self_after)
    /\ call.orphans >= 2
    /\ call.spawned >= 1
    /\ call.spawned < call.orphans

\* whether the sequence s is the beginning of the sequence t
IsPrefix(s, t) == Len(s) <= Len(t) /\ SubSeq(t, 1, Len(s)) = s

\* how many positions hold both a staged species and a snapshot of the
\* previous members
StagedWithSnapshot(s) ==
    IF Len(s.new_species_collection) < Len(s.old_species_individuals)
    THEN Len(s.new_species_collection)
    ELSE Len(s.old_species_individuals)

\* whether the species `managed`, which is species i of the new collection
\* after the orphans were placed, holds what the population management has
\* made of the new members and the previous members of species i: some of
\* them in their order, and as many as the quota when the population
\* management returns as many as it is asked for
HoldsPolicyResult(s, adopted, amounts, exact, i, managed) ==
    /\ IsPrefix(SpeciesMembers(managed),
                SpeciesMembers(adopted[i]) \o s.old_species_individuals[i])
    /\ exact => Len(managed.individuals) = amounts[i]

\* whether `returned` holds the species of the new collection as the loop
\* of the population management and the cleanup must leave them
PolicyManaged(s, adopted, amounts, exact, returned) ==
    /\ \A j \in 1..Len(returned) : \E i \in 1..Len(adopted) : adopted[i].id = returned[j].id
    /\ \A i \in 1..Len(adopted) :
          /\ \A j \in 1..Len(returned) :
                returned[j].id = adopted[i].id =>
                    IF i <= StagedWithSnapshot(s)
                    THEN HoldsPolicyResult(s, adopted, amounts, exact, i, returned[j])
                    ELSE returned[j].individuals = adopted[i].individuals
          /\ (\/ i > StagedWithSnapshot(s)
              \/ exact /\ amounts[i] > 0) =>
                \E j \in 1..Len(returned) : returned[j].id = adopted[i].id
          /\ (i <= StagedWithSnapshot(s) /\ exact /\ amounts[i] = 0) =>
                \A j \in 1..Len(returned) : returned[j].id # adopted[i].id

\* C29: next_generation hands the population management, once for every
\* position i that holds both a staged species and a snapshot, the new
\* members of species i (those staged and the orphans it has adopted), its
\* previous members and the quota offspring_amounts[i], and gives species i
\* the members that come back; the species that orphans have founded are
\* not handed over and keep the orphans they have received.
C29_PolicyManagesThePairedSpecies ==
    [][(call'.op = "next_generation" /\ aborted' = NoPanic) =>
          PolicyManaged(
              Unwrap(seed),
              AdoptOrphans(PromotedCollection(Unwrap(seed)), genus.next_species_id,
                           Unwrap(seed).orphans, 1).sc.collection,
              call'.amounts, call'.policy_exact, SpeciesOf(genus'))]_vars

\* next_generation has returned a Genus that holds a species an orphan has
\* founded next to a species that the population management has filled
C29_Witness ==
    /\ NextGenerationReturned
    /\ call.spawned >= 1
    /\ \E i \in 1..Len(SpeciesOf(genus)) :
          /\ SpeciesOf(genus)[i].id < genus.next_species_id - call.spawned
          /\ Len(SpeciesOf(genus)[i].individuals) >= 2

\* the position of the species for which the new individual `id` was made:
\* the new individuals are numbered from first_id on in the order of their
\* creation, species after species
OriginOf(amounts, first_id, id) ==
    CHOOSE i \in 1..Len(amounts) :
        /\ NumberOfChildren(SubSeq(amounts, 1, i - 1)) < id - first_id + 1
        /\ id - first_id + 1 <= NumberOfChildren(SubSeq(amounts, 1, i))

\* the staged species that hold the individual `id`, and its places among
\* the orphans
StagedIn(s, id) ==
    {i \in 1..Len(s.new_species_collection) :
        \E k \in 1..Len(s.new_species_collection[i].individuals) :
            s.new_species_collection[i].individuals[k].id = id}

OrphanedAt(s, id) == {k \in 1..Len(s.orphans) : s.orphans[k].id = id}

\* whether the new individual `id` is where its compatibility with the
\* representative of the species it was made for puts it: staged in that
\* species and nowhere else, or among the orphans, once, and staged nowhere
ClassifiedByOrigin(collection, s, origin, id) ==
    IF \E k \in 1..Len(s.new_species_collection[origin].individuals) :
           /\ s.new_species_collection[origin].individuals[k].id = id
           /\ SpeciesIsCompatible(collection[origin],
                                  s.new_species_collection[origin].individuals[k])
    THEN StagedIn(s, id) = {origin} /\ OrphanedAt(s, id) = {}
    ELSE /\ StagedIn(s, id) = {}
         /\ Cardinality(OrphanedAt(s, id)) = 1
         /\ \A k \in OrphanedAt(s, id) : ~SpeciesIsCompatible(collection[origin], s.orphans[k])

\* whether the GenusSeed s is what generate_new_individuals must build from
\* the species `collection` with the quotas `amounts`
SeedClassifies(collection, amounts, first_id, s) ==
    /\ Len(s.new_species_collection) = Len(collection)
    /\ Len(s.old_species_individuals) = Len(collection)
    /\ \A i \in 1..Len(collection) :
          /\ s.new_species_collection[i].id = collection[i].id
          /\ s.new_species_collection[i].age = collection[i].age
          /\ s.new_species_collection[i].last_best_fitness = collection[i].last_best_fitness
          /\ s.old_species_individuals[i] = SpeciesMembers(collection[i])
    /\ s.need_evaluation = [k \in 1..NumberOfChildren(amounts) |-> first_id + k - 1]
    /\ StagedCount(s) + Len(s.orphans) = Len(s.need_evaluation)
    /\ \A k \in 1..Len(s.need_evaluation) :
          ClassifiedByOrigin(collection, s,
                             OriginOf(amounts, first_id, s.need_evaluation[k]),
                             s.need_evaluation[k])

\* C30: generate_new_individuals puts every individual it makes where its
\* compatibility with the representative of the species it was made for
\* says, staged in the new roster of that species or among the orphans, and
\* registers it once for evaluation, so that need_evaluation holds the
\* staged individuals and the orphans and no other; staged species i has
\* the id, the age and the last best fitness of species i, and
\* old_species_individuals[i] holds the members species i had, in order.
C30_NewIndividualsAreClassifiedAndRegistered ==
    [][(call'.op = "generate_new_individuals" /\ aborted' = NoPanic) =>
          SeedClassifies(SpeciesOf(genus), call'.amounts, next_individual_id,
                         Unwrap(seed'))]_vars

\* generate_new_individuals has returned a GenusSeed of two species or more
\* that holds a staged individual and an orphan
C30_Witness ==
    /\ GenerateReturned
    /\ Unwrap(seed).orphans # <<>>
    /\ StagedCount(Unwrap(seed)) >= 1
    /\ Len(Unwrap(seed).new_species_collection) >= 2

\* the names of the policies called for a child, in order
PoliciesCalled(calls) == [k \in 1..Len(calls) |-> calls[k].policy]

\* the policy calls form one chain: the first is handed the parent pool,
\* each later one is handed what the one before answered, and the child
\* returned is what the last answered
ChainedFrom(population, calls, child) ==
    /\ calls[1].input = population
    /\ \A k \in 2..Len(calls) : calls[k].input = calls[k - 1].output
    /\ calls[Len(calls)].output = <<child>>

\* C31: a child is made by the two-parent selection and the two-parent
\* reproduction policies exactly when conf.crossover is set and the species it
\* comes from has more than one member, and by the single-parent selection and
\* reproduction policies otherwise; either way the mutation policy is called
\* once, last, on the child that reproduction made, and the mutated child is
\* the one returned.  Making a child from a species without members panics,
\* and from no other species.
C31_PoliciesFollowCrossoverAndPoolSize ==
    call.op = "generate_new_individual" =>
        /\ (aborted # NoPanic) <=> (call.population = <<>>)
        /\ aborted = NoPanic =>
              /\ PoliciesCalled(call.calls) =
                     IF call.crossover /\ Len(call.population) > 1
                     THEN <<"parent_selection", "crossover_individual_2",
                            "mutate_individual">>
                     ELSE <<"selection", "reproduce_individual_1",
                            "mutate_individual">>
              /\ ChainedFrom(call.population, call.calls, Unwrap(call.child))
              /\ Unwrap(call.child) = MutateIndividual(call.calls[2].output[1])
              /\ Unwrap(call.child) # call.calls[2].output[1]
              /\ \A k \in 1..Len(call.calls[1].output) :
                    \E m \in 1..Len(call.population) :
                        call.calls[1].output[k] = call.population[m]

\* a child was made from two parents of a species of several members
C31_Witness ==
    /\ call.op = "generate_new_individual"
    /\ aborted = NoPanic
    /\ call.crossover
    /\ Len(call.population) > 1
    /\ call.calls[1].policy = "parent_selection"
    /\ call.calls[1].output[1] # call.calls[1].output[2]

\* calculate_average_fitness answers with an average: every individual has
\* an adjusted fitness and the total is positive
AverageIsCalculated(g) ==
    /\ CalculateAverageFitness(g).panic = NoPanic
    /\ CalculateAverageFitness(g).err = ""

\* count_offsprings(n) neither meets an excess of offsprings nor calls
\* get_worst
NeverOvershoots(g, n) ==
    /\ SeqSum(FloorQuotas(g)) <= n
    /\ MissingOffsprings(g, n) >= 0
    /\ CountOffsprings(g, n).panic # CollectionGetWorst(g.species_collection).panic

\* two species of five individuals each with the same accumulated adjusted
\* fitness: every quotient accumulated / average is a whole number
ExampleEvenGenus ==
    BuildNextGeneration(
        CollectionNewFromIter(
            <<[SpeciesNew(NewIndividual(0, "a"), 1) EXCEPT
                  !.individuals = ExampleMembers(0, 1, 4)],
              [SpeciesNew(NewIndividual(0, "a"), 2) EXCEPT
                  !.individuals = ExampleMembers(5, 1, 4)]>>),
        3)

\* C32: when every individual of the Genus has an adjusted fitness, the total
\* is positive and the Genus holds no more than n individuals, the floor
\* quotas sum to n at most, so count_offsprings(n) has no excess to remove
\* and does not call get_worst (two species of five with equal accumulated
\* fitness, ten asked for: floors 5 and 5, nothing to correct); no call that
\* follows the order of one generation from a population of
\* total_population_size ends in get_worst.
C32_FloorQuotasNeverOvershoot ==
    /\ call.op = "new" =>
          /\ FloorQuotas(ExampleEvenGenus) = <<5, 5>>
          /\ NeverOvershoots(ExampleEvenGenus, 10)
          /\ CountOffsprings(ExampleEvenGenus, 10).amounts = <<5, 5>>
    /\ AverageIsCalculated(genus) =>
          \A n \in 1..MaxIndividuals :
              GenusCountIndividuals(genus) <= n => NeverOvershoots(genus, n)
    /\ order # 0 =>
          /\ aborted # CollectionGetWorst(genus.species_collection).panic
          /\ GenusCountIndividuals(genus) <= Conf.total_population_size

\* update has returned, in the order of one generation, a Genus of
\* total_population_size individuals whose floor quotas sum to exactly
\* total_population_size: count_offsprings would have nothing to correct
C32_Witness ==
    /\ call.op = "update"
    /\ order = 3
    /\ aborted = NoPanic
    /\ AverageIsCalculated(genus)
    /\ GenusCountIndividuals(genus) = Conf.total_population_size
    /\ SeqSum(FloorQuotas(genus)) = Conf.total_population_size

\* the state a species carries besides its members
StateOf(s) == [id |-> s.id, age |-> s.age, last_best_fitness |-> s.last_best_fitness]

\* the states of the species, in the order of the collection
StatesOf(collection) == [i \in 1..Len(collection) |-> StateOf(collection[i])]

\* no member of the species has an adjusted fitness
AdjustedFitnessUnset(s) ==
    \A k \in 1..Len(s.individuals) : s.individuals[k].adjusted_fitness = None

\* species s of a returned Genus is one of the staged species, with the
\* state that species has in the seed, or it was founded by an orphan under
\* an id that the Genus had not given out, and is as Species::new makes it
KeptOrFresh(s, staged, next_species_id) ==
    IF s.id < next_species_id
    THEN \E i \in 1..Len(staged) : StateOf(staged[i]) = StateOf(s)
    ELSE /\ s.age = AgeNew
         /\ s.last_best_fitness = FZero

\* C33: a species that is still there after next_generation has the
\* generations, evaluations and no_improvements counters and the last best
\* fitness that the species of its id had when generate_new_individuals ran:
\* the seed takes them over from the Genus, nothing changes them while the
\* caller holds the seed, and the returned Genus takes them over from the
\* seed.  No individual of the returned Genus has an adjusted fitness, and
\* the species founded by orphans have all age counters at 0 and a last best
\* fitness of zero.
C33_SurvivingSpeciesKeepTheirState ==
    [][/\ (call'.op = "generate_new_individuals" /\ aborted' = NoPanic) =>
             StatesOf(Unwrap(seed').new_species_collection) = StatesOf(SpeciesOf(genus))
       /\ (IsSome(seed) /\ IsSome(seed') /\ call'.op # "generate_new_individuals") =>
             StatesOf(Unwrap(seed').new_species_collection)
                 = StatesOf(Unwrap(seed).new_species_collection)
       /\ (call'.op = "next_generation" /\ aborted' = NoPanic) =>
             \A j \in 1..Len(SpeciesOf(genus')) :
                 /\ AdjustedFitnessUnset(SpeciesOf(genus')[j])
                 /\ KeptOrFresh(SpeciesOf(genus')[j],
                                Unwrap(seed).new_species_collection,
                                genus.next_species_id)]_vars

\* next_generation has returned a Genus that holds a species that has aged
\* and has a last best fitness, and after it a species founded by an orphan
C33_Witness ==
    /\ NextGenerationReturned
    /\ call.spawned > 0
    /\ Len(SpeciesOf(genus)) >= 2
    /\ \E j \in 1..Len(SpeciesOf(genus)) - 1 :
          /\ SpeciesOf(genus)[j].age.generations > 0
          /\ SpeciesOf(genus)[j].last_best_fitness # FZero
    /\ SpeciesOf(genus)[Len(SpeciesOf(genus))].age = AgeNew
    /\ SpeciesOf(genus)[Len(SpeciesOf(genus))].last_best_fitness = FZero

====
